---- MODULE Spec2Model ----
(***************************************************************************)
(* TDK-Lambda ZUp power supplies on a multi-drop serial bus: the Zup class *)
(* (src/Zup.py) and the ZUps_ON / ZUps_off sequencer                       *)
(* (src/OldCode/ABT_ZUp.py).                                               *)
(*                                                                         *)
(* Conventions.  A Python str is a sequence of one-character strings.  A   *)
(* Python real is an integer counting units of 10^-4, so every value the   *)
(* formats can carry (at most 4 decimals) is exact.                        *)
(***************************************************************************)
EXTENDS Integers, Sequences, FiniteSets, TLC

VARIABLES
    pc,            \* position of the sequencer call: the function of ZUps_ON / ZUps_off about to run
    ZUps,          \* argument ZUps of ZUps_ON: sequence of <<Address, Voltage, Amperage, Foldback>>
    Addresses,     \* argument Addresses of ZUps_off, or _ZUps_GetAddresses(ZUps)
    is_open,       \* PortSerial.is_open
    opens,         \* number of serial.Serial(...) constructions by the sequencer
    wire,          \* every command written to the bus, oldest first
    rx,            \* replies received and not yet read (the port's input buffer)
    listen,        \* address named by the last ADR command on the bus (0: none)
    dev,           \* the supplies on the bus: address -> registers
    exc,           \* exception that ended the call ("none" while running)
    Failures,      \* the failures collected in the message of the raised error
    gaps,          \* per command of wire, the milliseconds slept since the command before it
    idle,          \* milliseconds slept since the last command was written
    dev0,          \* the supplies as they were when the call started
    call,          \* the sequencer function called: "ZUps_ON", "ZUps_off" or "none"
    Baud,          \* argument Baud of the call
    listening_addresses, \* Zup.listening_addresses: port -> address
    handles,       \* the Zup objects constructed so far: set of [address, port]
    zwire,         \* per port, every command the Zup class has written, oldest first
    issued,        \* per port, one record per call of Zup._write_command, oldest first
    zbus,          \* per port, the bus behind it: [listen, dev, rx] as for the sequencer
    zgaps,         \* per port and command of zwire, the milliseconds slept since the command before it
    zidle,         \* per port, milliseconds slept since the last command was written
    zopen,         \* per port, serial_port.is_open
    threads,       \* per thread of a multi-threaded client, the call of _write_command it is in
    last           \* the last call of a constructor or setter: what it was given and what it did

vars == <<pc, ZUps, Addresses, is_open, opens, wire, rx, listen, dev, exc, Failures, gaps, idle, dev0, call, Baud,
          listening_addresses, handles, zwire, issued, zbus, zgaps, zidle, zopen, threads, last>>

-----------------------------------------------------------------------------
(* Numbers and strings *)

RECURSIVE Pow10(_)
Pow10(n) == IF n = 0 THEN 1 ELSE 10 * Pow10(n - 1)

\* One real unit (1.0) in the integer representation.
Unit == Pow10(4)

DigitChars == <<"0", "1", "2", "3", "4", "5", "6", "7", "8", "9">>

IsDigit(c) == \E i \in 1..10 : DigitChars[i] = c

DigitVal(c) == (CHOOSE i \in 1..10 : DigitChars[i] = c) - 1

\* str(n) for a natural number n.
RECURSIVE StrNat(_)
StrNat(n) == IF n < 10 THEN <<DigitChars[n + 1]>> ELSE StrNat(n \div 10) \o <<DigitChars[(n % 10) + 1]>>

\* The k low decimal digits of n, zero padded.
RECURSIVE FracDigits(_, _)
FracDigits(n, k) == IF k = 0 THEN <<>> ELSE FracDigits(n \div 10, k - 1) \o <<DigitChars[(n % 10) + 1]>>

\* s.index(c): position (1-based) of the first c in s, 0 when there is none (Python raises ValueError).
index(s, c) == IF \E i \in 1..Len(s) : s[i] = c THEN CHOOSE i \in 1..Len(s) : s[i] = c /\ \A j \in 1..(i - 1) : s[j] # c ELSE 0

\* The value of a string of digits.
RECURSIVE NatOf(_)
NatOf(s) == IF s = <<>> THEN 0 ELSE 10 * NatOf(SubSeq(s, 1, Len(s) - 1)) + DigitVal(s[Len(s)])

\* float(s) succeeds: digits with at most one '.', at least one digit.
IsFloat(s) ==
    /\ s # <<>>
    /\ \A i \in 1..Len(s) : IsDigit(s[i]) \/ s[i] = "."
    /\ Cardinality({i \in 1..Len(s) : s[i] = "."}) <= 1
    /\ \E i \in 1..Len(s) : IsDigit(s[i])
    /\ Len(s) - index(s, ".") <= 4 \/ index(s, ".") = 0

\* float(s), in units of 10^-4.
float(s) ==
    LET p == index(s, ".")
        ip == IF p = 0 THEN s ELSE SubSeq(s, 1, p - 1)
        fp == IF p = 0 THEN <<>> ELSE SubSeq(s, p + 1, Len(s))
    IN NatOf(ip) * Unit + NatOf(fp) * Pow10(4 - Len(fp))

\* round(x, T) for x >= 0: the number of 10^-T units nearest to x, ties to even.
round(x, T) ==
    LET m == Pow10(4 - T)
        q == x \div m
        r == x % m
    IN IF 2 * r > m \/ (2 * r = m /\ q % 2 = 1) THEN q + 1 ELSE q

\* s left-padded with c to width n.
RECURSIVE PadLeft(_, _, _)
PadLeft(s, c, n) == IF Len(s) >= n THEN s ELSE PadLeft(<<c>> \o s, c, n)

\* '{:W.Tf}'.format(q * 10^-T) for q >= 0: T decimals, space padded to width W.
FixedPoint(q, W, T) == PadLeft(StrNat(q \div Pow10(T)) \o <<".">> \o FracDigits(q % Pow10(T), T), " ", W)

\* _Format(valReal, digitsLeading, digitsTrailing) of the sequencer.
_Format(valReal, digitsLeading, digitsTrailing) ==
    PadLeft(FixedPoint(round(valReal, digitsTrailing), digitsLeading, digitsTrailing), "0", digitsLeading + digitsTrailing + 1)

\* _ZUp_FormatAddress(Address).
_ZUp_FormatAddress(Address) == IF Address < 10 THEN <<"0">> \o StrNat(Address) ELSE StrNat(Address)

-----------------------------------------------------------------------------
(* The tables of the Zup class: src/Zup.py *)

\* Zup.ADDRESS_RANGE = range(1, 32, 1).
ADDRESS_RANGE == 1..31

\* Zup.BAUD_RATES.
BAUD_RATES == {300, 600, 1200, 2400, 4800, 9600}

\* Zup.FORMATS: the format spec '{:0>W.Tf}' as [width |-> W, precision |-> T].
FORMATS ==
    ("1.2" :> [width |-> 4, precision |-> 2]) @@
    ("1.3" :> [width |-> 5, precision |-> 3]) @@
    ("1.4" :> [width |-> 6, precision |-> 4]) @@
    ("2.1" :> [width |-> 4, precision |-> 1]) @@
    ("2.2" :> [width |-> 5, precision |-> 2]) @@
    ("2.3" :> [width |-> 6, precision |-> 3]) @@
    ("3.1" :> [width |-> 5, precision |-> 1]) @@
    ("3.2" :> [width |-> 6, precision |-> 2])

\* A format that does not pad.
format_Unpadded(Format, x) ==
    (IF x < 0 THEN <<"-">> ELSE <<>>) \o FixedPoint(round(IF x < 0 THEN -x ELSE x, Format.precision), 0, Format.precision)

\* '{:0>W.Tf}'.format(x): x rounded to T decimals, with its sign, zero padded on the left to width W.
format(Format, x) ==
    PadLeft((IF x < 0 THEN <<"-">> ELSE <<>>) \o FixedPoint(round(IF x < 0 THEN -x ELSE x, Format.precision), 0, Format.precision),
            "0", Format.width)

\* Zup.VOLs, in units of 10^-4 V.
VOLs ==
    (<<"Z", "U", "P", "6", "-", "X", "Y">> :> [min |-> 0, MAX |-> 63000, Format |-> FORMATS["1.3"]]) @@
    (<<"Z", "U", "P", "1", "0", "-", "X", "Y">> :> [min |-> 0, MAX |-> 105000, Format |-> FORMATS["2.3"]]) @@
    (<<"Z", "U", "P", "2", "0", "-", "X", "Y">> :> [min |-> 0, MAX |-> 210000, Format |-> FORMATS["2.3"]]) @@
    (<<"Z", "U", "P", "3", "6", "-", "X", "Y">> :> [min |-> 0, MAX |-> 378000, Format |-> FORMATS["2.2"]]) @@
    (<<"Z", "U", "P", "6", "0", "-", "X", "Y">> :> [min |-> 0, MAX |-> 630000, Format |-> FORMATS["2.2"]]) @@
    (<<"Z", "U", "P", "8", "0", "-", "X", "Y">> :> [min |-> 0, MAX |-> 840000, Format |-> FORMATS["2.2"]]) @@
    (<<"Z", "U", "P", "1", "2", "0", "-", "X", "Y">> :> [min |-> 0, MAX |-> 1260000, Format |-> FORMATS["3.2"]])

\* Zup.CURs, in units of 10^-4 A.
CURs ==
    (<<"Z", "U", "P", "6", "-", "3", "3">> :> [min |-> 0, MAX |-> 346500, Format |-> FORMATS["2.2"]]) @@
    (<<"Z", "U", "P", "6", "-", "6", "6">> :> [min |-> 0, MAX |-> 693000, Format |-> FORMATS["2.2"]]) @@
    (<<"Z", "U", "P", "6", "-", "1", "3", "2">> :> [min |-> 0, MAX |-> 1386000, Format |-> FORMATS["3.2"]]) @@
    (<<"Z", "U", "P", "1", "0", "-", "2", "0">> :> [min |-> 0, MAX |-> 210000, Format |-> FORMATS["2.3"]]) @@
    (<<"Z", "U", "P", "1", "0", "-", "4", "0">> :> [min |-> 0, MAX |-> 420000, Format |-> FORMATS["2.2"]]) @@
    (<<"Z", "U", "P", "1", "0", "-", "8", "0">> :> [min |-> 0, MAX |-> 840000, Format |-> FORMATS["2.2"]]) @@
    (<<"Z", "U", "P", "2", "0", "-", "1", "0">> :> [min |-> 0, MAX |-> 105000, Format |-> FORMATS["2.3"]]) @@
    (<<"Z", "U", "P", "2", "0", "-", "2", "0">> :> [min |-> 0, MAX |-> 210000, Format |-> FORMATS["2.3"]]) @@
    (<<"Z", "U", "P", "2", "0", "-", "4", "0">> :> [min |-> 0, MAX |-> 420000, Format |-> FORMATS["2.2"]]) @@
    (<<"Z", "U", "P", "3", "6", "-", "6">> :> [min |-> 0, MAX |-> 63000, Format |-> FORMATS["1.3"]]) @@
    (<<"Z", "U", "P", "3", "6", "-", "1", "2">> :> [min |-> 0, MAX |-> 126000, Format |-> FORMATS["2.3"]]) @@
    (<<"Z", "U", "P", "3", "6", "-", "2", "4">> :> [min |-> 0, MAX |-> 252000, Format |-> FORMATS["2.3"]]) @@
    (<<"Z", "U", "P", "6", "0", "-", "3", ".", "5">> :> [min |-> 0, MAX |-> 36750, Format |-> FORMATS["1.3"]]) @@
    (<<"Z", "U", "P", "6", "0", "-", "7">> :> [min |-> 0, MAX |-> 73500, Format |-> FORMATS["1.3"]]) @@
    (<<"Z", "U", "P", "6", "0", "-", "1", "4">> :> [min |-> 0, MAX |-> 147000, Format |-> FORMATS["2.3"]]) @@
    (<<"Z", "U", "P", "8", "0", "-", "2", ".", "5">> :> [min |-> 0, MAX |-> 26250, Format |-> FORMATS["1.4"]]) @@
    (<<"Z", "U", "P", "8", "0", "-", "5">> :> [min |-> 0, MAX |-> 52500, Format |-> FORMATS["1.3"]]) @@
    (<<"Z", "U", "P", "1", "2", "0", "-", "1", ".", "8">> :> [min |-> 0, MAX |-> 18900, Format |-> FORMATS["1.4"]]) @@
    (<<"Z", "U", "P", "1", "2", "0", "-", "3", ".", "6">> :> [min |-> 0, MAX |-> 37800, Format |-> FORMATS["1.3"]])

\* Zup.OVPs, in units of 10^-4 V.
OVPs ==
    (<<"Z", "U", "P", "6", "-", "X", "Y">> :> [min |-> 2000, MAX |-> 75000, Format |-> FORMATS["1.2"]]) @@
    (<<"Z", "U", "P", "1", "0", "-", "X", "Y">> :> [min |-> 5000, MAX |-> 130000, Format |-> FORMATS["2.1"]]) @@
    (<<"Z", "U", "P", "2", "0", "-", "X", "Y">> :> [min |-> 10000, MAX |-> 240000, Format |-> FORMATS["2.1"]]) @@
    (<<"Z", "U", "P", "3", "6", "-", "X", "Y">> :> [min |-> 8000, MAX |-> 400000, Format |-> FORMATS["2.1"]]) @@
    (<<"Z", "U", "P", "6", "0", "-", "X", "Y">> :> [min |-> 30000, MAX |-> 660000, Format |-> FORMATS["2.1"]]) @@
    (<<"Z", "U", "P", "8", "0", "-", "X", "Y">> :> [min |-> 40000, MAX |-> 880000, Format |-> FORMATS["2.1"]]) @@
    (<<"Z", "U", "P", "1", "2", "0", "-", "X", "Y">> :> [min |-> 60000, MAX |-> 1320000, Format |-> FORMATS["3.1"]])

\* Zup.UVPs, in units of 10^-4 V.
UVPs ==
    (<<"Z", "U", "P", "6", "-", "X", "Y">> :> [min |-> 0, MAX |-> 59800, Format |-> FORMATS["1.2"]]) @@
    (<<"Z", "U", "P", "1", "0", "-", "X", "Y">> :> [min |-> 0, MAX |-> 99700, Format |-> FORMATS["1.2"]]) @@
    (<<"Z", "U", "P", "2", "0", "-", "X", "Y">> :> [min |-> 0, MAX |-> 199000, Format |-> FORMATS["2.1"]]) @@
    (<<"Z", "U", "P", "3", "6", "-", "X", "Y">> :> [min |-> 0, MAX |-> 359000, Format |-> FORMATS["2.1"]]) @@
    (<<"Z", "U", "P", "6", "0", "-", "X", "Y">> :> [min |-> 0, MAX |-> 598000, Format |-> FORMATS["2.1"]]) @@
    (<<"Z", "U", "P", "8", "0", "-", "X", "Y">> :> [min |-> 0, MAX |-> 798000, Format |-> FORMATS["2.1"]]) @@
    (<<"Z", "U", "P", "1", "2", "0", "-", "X", "Y">> :> [min |-> 0, MAX |-> 1198000, Format |-> FORMATS["3.1"]])

\* v and a of a model string: mdl[ : mdl.index('V')] and mdl[mdl.index('-') + 1 : mdl.index('A')].
ModelV(mdl) == SubSeq(mdl, 1, index(mdl, "V") - 1)

ModelA(mdl) == SubSeq(mdl, index(mdl, "-") + 1, index(mdl, "A") - 1)

\* 'ZUP{}-{}'.format(v, a) and 'ZUP{}-XY'.format(v).
ZUPva(v, a) == <<"Z", "U", "P">> \o v \o <<"-">> \o a

ZUPxy(v) == <<"Z", "U", "P">> \o v \o <<"-", "X", "Y">>

-----------------------------------------------------------------------------
(* The wire protocol: command and reply strings *)

\* The commands of the wire protocol; ADR, VOL, CUR, UVP and OVP are prefixes that End completes.
Cmd ==
    [ ADR |-> <<":", "A", "D", "R">>,
      VOL |-> <<":", "V", "O", "L">>,
      CUR |-> <<":", "C", "U", "R">>,
      UVP |-> <<":", "U", "V", "P">>,
      OVP |-> <<":", "O", "V", "P">>,
      End |-> <<";">>,
      MDLq |-> <<":", "M", "D", "L", "?", ";">>,
      REVq |-> <<":", "R", "E", "V", "?", ";">>,
      VOLx |-> <<":", "V", "O", "L", "!", ";">>,
      VOLq |-> <<":", "V", "O", "L", "?", ";">>,
      CURx |-> <<":", "C", "U", "R", "!", ";">>,
      CURq |-> <<":", "C", "U", "R", "?", ";">>,
      UVPq |-> <<":", "U", "V", "P", "?", ";">>,
      OVPq |-> <<":", "O", "V", "P", "?", ";">>,
      OUT0 |-> <<":", "O", "U", "T", "0", ";">>,
      OUT1 |-> <<":", "O", "U", "T", "1", ";">>,
      OUTq |-> <<":", "O", "U", "T", "?", ";">>,
      ASTq |-> <<":", "A", "S", "T", "?", ";">>,
      AST0 |-> <<":", "A", "S", "T", "0", ";">>,
      AST1 |-> <<":", "A", "S", "T", "1", ";">>,
      FLDq |-> <<":", "F", "L", "D", "?", ";">>,
      FLD0 |-> <<":", "F", "L", "D", "0", ";">>,
      FLD1 |-> <<":", "F", "L", "D", "1", ";">>,
      FLD2 |-> <<":", "F", "L", "D", "2", ";">>,
      RMTq |-> <<":", "R", "M", "T", "?", ";">>,
      RMT0 |-> <<":", "R", "M", "T", "0", ";">>,
      RMT1 |-> <<":", "R", "M", "T", "1", ";">>,
      RMT2 |-> <<":", "R", "M", "T", "2", ";">>,
      STAq |-> <<":", "S", "T", "A", "?", ";">>,
      STPq |-> <<":", "S", "T", "P", "?", ";">>,
      ALMq |-> <<":", "A", "L", "M", "?", ";">>,
      SRVq |-> <<":", "S", "R", "V", "?", ";">>,
      SRV0 |-> <<":", "S", "R", "V", "0", ";">>,
      SRV1 |-> <<":", "S", "R", "V", "1", ";">>,
      SRTq |-> <<":", "S", "R", "T", "?", ";">>,
      SRT0 |-> <<":", "S", "R", "T", "0", ";">>,
      SRT1 |-> <<":", "S", "R", "T", "1", ";">>,
      SRFq |-> <<":", "S", "R", "F", "?", ";">>,
      SRF0 |-> <<":", "S", "R", "F", "0", ";">>,
      SRF1 |-> <<":", "S", "R", "F", "1", ";">>,
      DCL |-> <<":", "D", "C", "L", ";">> ]

CRLF == <<"\r", "\n">>

\* The three-letter keyword and the argument of a command ':KEYarg;'.
Keyword(cmd) == SubSeq(cmd, 2, 4)

Argument(cmd) == SubSeq(cmd, 5, Len(cmd) - 1)

IsADR(cmd) == SubSeq(cmd, 1, 4) = Cmd.ADR

\* A command that sets one of the four set-points, e.g. ':VOL03.30;'.
IsSet(cmd, k) == SubSeq(cmd, 1, 4) = k /\ IsFloat(Argument(cmd))

-----------------------------------------------------------------------------
(* The supplies on the bus.  A supply acts on a command only while it is    *)
(* the one named by the last ADR command; it stores the values sent to it   *)
(* and answers a query with the matching register.                          *)

Devices == {1, 2, 3}

Vendor == <<"N", "e", "m", "i", "c", "-", "L", "a", "m", "b", "d", "a", " ", "Z", "U", "P", "(">>
\* The model strings: the nineteen of the catalogue, '120V-3.6' as _ZUps_PowerVAs spells it, and two that
\* no table lists (36 V with 10 A, 40 V with 5 A).
Model ==
    [ m6V_33A |-> <<"6", "V", "-", "3", "3", "A">>,
      m6V_66A |-> <<"6", "V", "-", "6", "6", "A">>,
      m6V_132A |-> <<"6", "V", "-", "1", "3", "2", "A">>,
      m10V_20A |-> <<"1", "0", "V", "-", "2", "0", "A">>,
      m10V_40A |-> <<"1", "0", "V", "-", "4", "0", "A">>,
      m10V_80A |-> <<"1", "0", "V", "-", "8", "0", "A">>,
      m20V_10A |-> <<"2", "0", "V", "-", "1", "0", "A">>,
      m20V_20A |-> <<"2", "0", "V", "-", "2", "0", "A">>,
      m20V_40A |-> <<"2", "0", "V", "-", "4", "0", "A">>,
      m36V_6A |-> <<"3", "6", "V", "-", "6", "A">>,
      m36V_12A |-> <<"3", "6", "V", "-", "1", "2", "A">>,
      m36V_24A |-> <<"3", "6", "V", "-", "2", "4", "A">>,
      m60V_3p5A |-> <<"6", "0", "V", "-", "3", ".", "5", "A">>,
      m60V_7A |-> <<"6", "0", "V", "-", "7", "A">>,
      m60V_14A |-> <<"6", "0", "V", "-", "1", "4", "A">>,
      m80V_2p5A |-> <<"8", "0", "V", "-", "2", ".", "5", "A">>,
      m80V_5A |-> <<"8", "0", "V", "-", "5", "A">>,
      m120V_1p8A |-> <<"1", "2", "0", "V", "-", "1", ".", "8", "A">>,
      m120V_3p6A |-> <<"1", "2", "0", "V", "-", "3", ".", "6", "A">>,
      m120V_3p6 |-> <<"1", "2", "0", "V", "-", "3", ".", "6">>,
      m36V_10A |-> <<"3", "6", "V", "-", "1", "0", "A">>,
      m40V_5A |-> <<"4", "0", "V", "-", "5", "A">> ]

\* The digits before and after the point of a format spec.
Layout(Format) == <<Format.width - Format.precision - 1, Format.precision>>

\* The model mdl is one of the catalogue.
Listed(mdl) == ZUPva(ModelV(mdl), ModelA(mdl)) \in DOMAIN CURs /\ ZUPxy(ModelV(mdl)) \in DOMAIN VOLs

\* A supply of model mdl: its model string and the layouts (leading, trailing digits) of its
\* voltage, current, UVP and OVP replies, which are those of the tables for a listed model.
Installed(mdl) ==
    IF Listed(mdl)
    THEN [mdl |-> mdl, fV |-> Layout(VOLs[ZUPxy(ModelV(mdl))].Format), fC |-> Layout(CURs[ZUPva(ModelV(mdl), ModelA(mdl))].Format),
          fU |-> Layout(UVPs[ZUPxy(ModelV(mdl))].Format), fO |-> Layout(OVPs[ZUPxy(ModelV(mdl))].Format)]
    ELSE [mdl |-> mdl, fV |-> <<2, 2>>, fC |-> <<2, 2>>, fU |-> <<2, 1>>, fO |-> <<2, 1>>]

\* The supply installed at each address of the sequencer's bus.
Catalog(a) ==
    CASE a = 1 -> Installed(Model.m36V_6A)
      [] a = 2 -> Installed(Model.m20V_10A)
      [] a = 3 -> Installed(Model.m6V_33A)

\* A supply's registers: set-points, protection limits, output and modes, and the
\* measured output (av, aa).  stuck: the output ignores OUT0 (a supply that fails to turn off).
DevState(vol, cur, out) ==
    [vol |-> vol, cur |-> cur, uvp |-> 0, ovp |-> 40 * Unit, out |-> out, rmt |-> 1, fld |-> 2,
     ast |-> 0, srv |-> 0, srt |-> 0, srf |-> 0, av |-> vol * out, aa |-> 0, stuck |-> FALSE]

\* The supply of catalogue entry c with the registers s.
Supply(c, s) == s @@ [cat |-> c]

Fmt(x, f) == _Format(x, f[1], f[2])

\* The reply lines a supply sends to a command: one line to a query, none otherwise.
DevReply(a, d, cmd) ==
    LET k == Keyword(cmd)
        q == Argument(cmd)
        c == d.cat
        line(s) == <<s \o CRLF>>
    IN  IF q = <<"?">> THEN
            CASE k = <<"M", "D", "L">> -> line(Vendor \o c.mdl \o <<")">>)
              [] k = <<"R", "E", "V">> -> line(<<"V", "e", "r">>)
              [] k = <<"V", "O", "L">> -> line(<<"A", "V">> \o Fmt(d.av, c.fV))
              [] k = <<"C", "U", "R">> -> line(<<"A", "A">> \o Fmt(d.aa, c.fC))
              [] k = <<"U", "V", "P">> -> line(<<"U", "P">> \o Fmt(d.uvp, c.fU))
              [] k = <<"O", "V", "P">> -> line(<<"O", "P">> \o Fmt(d.ovp, c.fO))
              [] k = <<"O", "U", "T">> -> line(<<"O", "T">> \o StrNat(d.out))
              [] k = <<"A", "S", "T">> -> line(<<"A", "S">> \o StrNat(d.ast))
              [] k = <<"F", "L", "D">> -> line(<<"F", "D">> \o StrNat(d.fld))
              [] k = <<"R", "M", "T">> -> line(<<"R", "M">> \o StrNat(d.rmt))
              [] k = <<"S", "T", "A">> -> line(<<"O", "S", "0", "0", "0">> \o StrNat(d.out) \o <<"0", "0", "0", "0">>)
              [] k = <<"S", "T", "P">> -> line(<<"P", "S", "0", "0", "0", "0", "0">>)
              [] k = <<"A", "L", "M">> -> line(<<"A", "L", "0", "0", "0", "0", "0">>)
              [] k = <<"S", "R", "V">> -> line(<<"Q", "V">> \o StrNat(d.srv))
              [] k = <<"S", "R", "T">> -> line(<<"Q", "T">> \o StrNat(d.srt))
              [] k = <<"S", "R", "F">> -> line(<<"Q", "F">> \o StrNat(d.srf))
              [] OTHER -> <<>>
        ELSE IF q = <<"!">> THEN
            CASE k = <<"V", "O", "L">> -> line(<<"S", "V">> \o Fmt(d.vol, c.fV))
              [] k = <<"C", "U", "R">> -> line(<<"S", "A">> \o Fmt(d.cur, c.fC))
              [] OTHER -> <<>>
        ELSE <<>>

\* The registers of a supply after it has acted on a command.
DevAct(d, cmd) ==
    LET k == Keyword(cmd)
        q == Argument(cmd)
        bit == IF Len(q) = 1 /\ IsDigit(q[1]) THEN DigitVal(q[1]) ELSE 9
    IN  IF IsFloat(q) /\ Len(q) > 1 THEN
            CASE k = <<"V", "O", "L">> -> [d EXCEPT !.vol = float(q)]
              [] k = <<"C", "U", "R">> -> [d EXCEPT !.cur = float(q)]
              [] k = <<"U", "V", "P">> -> [d EXCEPT !.uvp = float(q)]
              [] k = <<"O", "V", "P">> -> [d EXCEPT !.ovp = float(q)]
              [] OTHER -> d
        ELSE
            CASE k = <<"O", "U", "T">> /\ bit = 1 -> [d EXCEPT !.out = 1]
              [] k = <<"O", "U", "T">> /\ bit = 0 -> [d EXCEPT !.out = IF d.stuck THEN d.out ELSE 0]
              [] k = <<"A", "S", "T">> /\ bit \in {0, 1} -> [d EXCEPT !.ast = bit]
              [] k = <<"F", "L", "D">> /\ bit \in {0, 1, 2} -> [d EXCEPT !.fld = bit]
              [] k = <<"R", "M", "T">> /\ bit \in {0, 1, 2} -> [d EXCEPT !.rmt = bit]
              [] k = <<"S", "R", "V">> /\ bit \in {0, 1} -> [d EXCEPT !.srv = bit]
              [] k = <<"S", "R", "T">> /\ bit \in {0, 1} -> [d EXCEPT !.srt = bit]
              [] k = <<"S", "R", "F">> /\ bit \in {0, 1} -> [d EXCEPT !.srf = bit]
              [] OTHER -> d

\* The bus after a command has been transmitted: an ADR command selects the
\* listening supply, any other command is acted on and answered by that supply alone.
Deliver(w, cmd) ==
    IF IsADR(cmd) THEN
        [w EXCEPT !.listen = IF Len(Argument(cmd)) = 2 /\ \A i \in 1..2 : IsDigit(Argument(cmd)[i])
                             THEN NatOf(Argument(cmd)) ELSE 0]
    ELSE IF w.listen \in Devices THEN
        [w EXCEPT !.dev[w.listen] = DevAct(@, cmd),
                  !.rx = @ \o DevReply(w.listen, w.dev[w.listen], cmd)]
    ELSE w

-----------------------------------------------------------------------------
(* The serial port as the sequencer uses it.  A world w is the record of    *)
(* the port, the bus and the supplies that the functions below transform;   *)
(* w.exc # "none" means an exception is propagating and nothing more runs.  *)
(* w.fuel is the number of writes that succeed before one raises (-1: all). *)

\* Slept times are counted up to MaxIdle milliseconds.
MaxIdle == 100

\* time.sleep(ms / 1000).
sleep(w, ms) ==
    IF w.exc # "none" THEN w ELSE [w EXCEPT !.idle = IF @ + ms > MaxIdle THEN MaxIdle ELSE @ + ms]

\* PortSerial.write(Command.encode('utf-8')).
write(w, Command) ==
    IF w.exc # "none" THEN w
    ELSE IF ~w.is_open \/ w.fuel = 0 THEN [w EXCEPT !.exc = "SerialException"]
    ELSE Deliver([w EXCEPT !.wire = Append(@, Command), !.gaps = Append(@, w.idle), !.idle = 0,
                           !.fuel = IF @ > 0 THEN @ - 1 ELSE @], Command)

\* A _ZUp_WriteCommand without the delay after an ADR command.
_ZUp_WriteCommand_NoSettle(Command, w) ==
    IF IsADR(Command) THEN write(sleep(w, 15), Command) ELSE sleep(write(w, Command), 20)

\* _ZUp_WriteCommand(Command, PortSerial).
_ZUp_WriteCommand(Command, w) ==
    IF IsADR(Command) THEN sleep(write(sleep(w, 15), Command), 35) ELSE sleep(write(w, Command), 20)

\* _ZUp_ReadResponse(PortSerial): the next reply line, '' when the read times out.
_ZUp_ReadResponse(w) ==
    IF w.exc # "none" THEN [w |-> w, r |-> <<>>]
    ELSE IF w.rx = <<>> THEN [w |-> w, r |-> <<>>]
    ELSE [w |-> [w EXCEPT !.rx = Tail(@)], r |-> Head(w.rx)]

\* PortSerial.close().
close(w) == IF w.exc # "none" THEN w ELSE [w EXCEPT !.is_open = FALSE, !.rx = <<>>]

\* raise e, unless an exception is already propagating.
raise(w, e) == IF w.exc # "none" THEN w ELSE [w EXCEPT !.exc = e]

\* A command followed by the read of its reply.
Query(Command, w) == _ZUp_ReadResponse(_ZUp_WriteCommand(Command, w))

\* The commands of a sequence written one after the other, until one raises.
RECURSIVE WriteAll(_, _)
WriteAll(cmds, w) ==
    IF cmds = <<>> \/ w.exc # "none" THEN w
    ELSE WriteAll(Tail(cmds), _ZUp_WriteCommand(Head(cmds), w))

-----------------------------------------------------------------------------
(* The sequencer: src/OldCode/ABT_ZUp.py *)

_ZUp_VOL_TOLERANCE == 10

_ZUp_CUR_TOLERANCE == 5

_MAX_ZUps == 31

sFLD_ON == <<"F", "L", "D", "_", "O", "N">>
sFLD_OFF == <<"F", "L", "D", "_", "O", "F", "F">>
LowerChars == <<"a", "b", "c", "d", "e", "f", "g", "h", "i", "j", "k", "l", "m", "n", "o", "p", "q", "r", "s", "t", "u", "v", "w", "x", "y", "z">>
UpperChars == <<"A", "B", "C", "D", "E", "F", "G", "H", "I", "J", "K", "L", "M", "N", "O", "P", "Q", "R", "S", "T", "U", "V", "W", "X", "Y", "Z">>

\* s.upper().
upper(s) == [i \in 1..Len(s) |-> IF \E j \in 1..26 : LowerChars[j] = s[i]
                                  THEN UpperChars[CHOOSE j \in 1..26 : LowerChars[j] = s[i]] ELSE s[i]]

\* One line of the message of a raised error: what failed, and the address the line names (-1: none).
Failure(kind, at) == [kind |-> kind, at |-> at]

\* ':ADR' + _ZUp_FormatAddress(Address) + ';'.
ADR(Address) == Cmd.ADR \o _ZUp_FormatAddress(Address) \o Cmd.End

\* _ZUps_GetAddresses(ZUps).
_ZUps_GetAddresses(plan) == [i \in 1..Len(plan) |-> plan[i].Address]

\* _ZUps_VerifyAddresses(Addresses): the lines of Failures; ValueError is raised unless empty.
_ZUps_VerifyAddresses(addrs) ==
    (IF Len(addrs) \notin 1.._MAX_ZUps THEN <<Failure("Number", -1)>> ELSE <<>>)
    \o SelectSeq([i \in 1..Len(addrs) |-> IF addrs[i] \notin 1.._MAX_ZUps THEN Failure("Address", -1) ELSE Failure("", 0)],
                 LAMBDA x : x.kind # "")

\* A _ZUps_VerifyFoldbacks that stops at the first unknown foldback.
_ZUps_VerifyFoldbacks_First(plan) ==
    LET k == { i \in 1..Len(plan) : upper(plan[i].Foldback) \notin {sFLD_ON, sFLD_OFF} }
    IN  IF k = {} THEN <<>> ELSE <<Failure("Foldback", plan[CHOOSE i \in k : \A j \in k : i <= j].Address)>>

\* _ZUps_VerifyFoldbacks(ZUps): the lines of Failures; ValueError is raised unless empty.
_ZUps_VerifyFoldbacks(plan) ==
    SelectSeq([i \in 1..Len(plan) |-> IF upper(plan[i].Foldback) \notin {sFLD_ON, sFLD_OFF}
                                       THEN Failure("Foldback", plan[i].Address) ELSE Failure("", 0)],
              LAMBDA x : x.kind # "")

\* _ZUps_VerifyBaud(Baud) passes.
_ZUps_VerifyBaud(baud) == baud \in {300, 600, 1200, 2400, 4800, 9600}

\* _ZUps_GetPortSerial(SerialPort, Baud): serial.Serial(...) opens the port.
_ZUps_GetPortSerial(w) == [w EXCEPT !.is_open = TRUE, !.opens = @ + 1, !.rx = <<>>]

\* _ZUp_GetModel(ZUp, PortSerial): r is e.g. '36V-6A'; ValueError when the reply has no '(' or ')'.
ModelOf(q) ==
    IF q.w.exc # "none" THEN [w |-> q.w, r |-> <<>>]
    ELSE IF index(q.r, "(") = 0 \/ index(q.r, ")") = 0 THEN [w |-> raise(q.w, "ValueError"), r |-> <<>>]
    ELSE [w |-> q.w, r |-> SubSeq(q.r, index(q.r, "(") + 1, index(q.r, ")") - 1)]

_ZUp_GetModel(w) == ModelOf(Query(Cmd.MDLq, w))

\* The amperage check of _ZUps_VerifySetVAs passes: 0 <= Amperage <= A * (1 + _ZUp_CUR_TOLERANCE).
AmperageInRange(Amperage, A) == 0 <= Amperage /\ Amperage <= A * (1 + _ZUp_CUR_TOLERANCE)

\* The voltage check of _ZUps_VerifySetVAs passes: 0 <= Voltage <= V.
VoltageInRange(Voltage, V) == 0 <= Voltage /\ Voltage <= V

\* The checks of one iteration of _ZUps_VerifySetVAs, g being the result of _ZUp_GetModel.
CheckSetVA(ZUp, g) ==
    LET MDL == g.r
        sV == SubSeq(MDL, 1, index(MDL, "V") - 1)
        sA == SubSeq(MDL, index(MDL, "-") + 1, index(MDL, "A") - 1)
    IN  IF g.w.exc # "none" THEN g.w
        ELSE IF index(MDL, "V") = 0 \/ index(MDL, "-") = 0 \/ index(MDL, "A") = 0 \/ ~IsFloat(sV) \/ ~IsFloat(sA)
             THEN raise(g.w, "ValueError")
        ELSE [g.w EXCEPT !.Failures = @
                \o (IF ~VoltageInRange(ZUp.Voltage, float(sV)) THEN <<Failure("Voltage", ZUp.Address)>> ELSE <<>>)
                \o (IF ~AmperageInRange(ZUp.Amperage, float(sA)) THEN <<Failure("Amperage", ZUp.Address)>> ELSE <<>>)]

\* One iteration of the loop of _ZUps_VerifySetVAs.
VerifySetVA(ZUp, w) == CheckSetVA(ZUp, _ZUp_GetModel(_ZUp_WriteCommand(ADR(ZUp.Address), w)))

\* The end of a verification: close the port and raise e when Failures were collected.
RaiseIfFailures(w, e) == IF w.exc = "none" /\ w.Failures # <<>> THEN raise(close(w), e) ELSE w

\* for ZUp in ZUps of _ZUps_VerifySetVAs, until an iteration raises.
RECURSIVE VerifySetVALoop(_, _)
VerifySetVALoop(plan, w) ==
    IF plan = <<>> \/ w.exc # "none" THEN w
    ELSE VerifySetVALoop(Tail(plan), VerifySetVA(Head(plan), w))

\* A _ZUps_VerifySetVAs that collects the failures and raises nothing.
_ZUps_VerifySetVAs_Unchecked(plan, w) == VerifySetVALoop(plan, w)

\* _ZUps_VerifySetVAs(ZUps, PortSerial).
_ZUps_VerifySetVAs(plan, w) == RaiseIfFailures(VerifySetVALoop(plan, w), "ValueError")

\* The queries of _ZUp_ReadStatus, in order.
StatusQueries == <<Cmd.VOLq, Cmd.CURq, Cmd.STAq, Cmd.ALMq, Cmd.STPq, Cmd.RMTq, Cmd.MDLq, Cmd.REVq, Cmd.VOLx, Cmd.CURx, Cmd.FLDq, Cmd.OVPq, Cmd.UVPq, Cmd.ASTq>>

\* The queries cmds written and their replies read one after the other, until one raises.
RECURSIVE ReadAll(_, _)
ReadAll(cmds, w) ==
    IF cmds = <<>> \/ w.exc # "none" THEN w
    ELSE ReadAll(Tail(cmds), Query(Head(cmds), w).w)

\* _ZUp_ReadStatus(Address, PortSerial): the world after the status dump has been read.
_ZUp_ReadStatus(Address, w) == ReadAll(StatusQueries, _ZUp_WriteCommand(ADR(Address), w))

\* A _ZUps_SetPower iteration that does not address the supply first.
SetPower_Unaddressed(Address, w, DesiredState) ==
    _ZUp_WriteCommand(IF DesiredState = "off" THEN Cmd.OUT0 ELSE Cmd.OUT1, w)

\* One iteration of the loop of _ZUps_SetPower.
SetPower(Address, w, DesiredState) ==
    _ZUp_WriteCommand(IF DesiredState = "off" THEN Cmd.OUT0 ELSE Cmd.OUT1, _ZUp_WriteCommand(ADR(Address), w))

\* _ZUps_SetPower(Addresses, PortSerial, DesiredState).
RECURSIVE _ZUps_SetPower(_, _, _)
_ZUps_SetPower(addrs, w, DesiredState) ==
    IF addrs = <<>> \/ w.exc # "none" THEN w
    ELSE _ZUps_SetPower(Tail(addrs), SetPower(Head(addrs), w, DesiredState), DesiredState)

\* A _ZUps_VerifyPower iteration that reads the character before the power bit.
CheckPower_WrongBit(Address, q, ExpectedState) ==
    IF q.w.exc # "none" THEN q.w
    ELSE IF Len(q.r) >= 5 /\ q.r[5] = "1" /\ ExpectedState = "off"
         THEN _ZUp_ReadStatus(Address, [q.w EXCEPT !.Failures = Append(@, Failure("off", Address))])
    ELSE q.w

\* The check of one iteration of _ZUps_VerifyPower, q being the reply to STA?.
CheckPower(Address, q, ExpectedState) ==
    LET OSR == q.r
        bit == IF Len(OSR) >= 6 THEN OSR[6] ELSE ""
    IN  IF q.w.exc # "none" THEN q.w
        ELSE IF bit = "0" /\ ExpectedState = "ON"
             THEN _ZUp_ReadStatus(Address, [q.w EXCEPT !.Failures = Append(@, Failure("ON", Address))])
        ELSE IF bit = "1" /\ ExpectedState = "off"
             THEN _ZUp_ReadStatus(Address, [q.w EXCEPT !.Failures = Append(@, Failure("off", Address))])
        ELSE q.w

\* One iteration of the loop of _ZUps_VerifyPower.
VerifyPower(Address, w, ExpectedState) ==
    CheckPower(Address, Query(Cmd.STAq, _ZUp_WriteCommand(ADR(Address), w)), ExpectedState)

\* for Address in Addresses of _ZUps_VerifyPower, until an iteration raises.
RECURSIVE VerifyPowerLoop(_, _, _)
VerifyPowerLoop(addrs, w, ExpectedState) ==
    IF addrs = <<>> \/ w.exc # "none" THEN w
    ELSE VerifyPowerLoop(Tail(addrs), VerifyPower(Head(addrs), w, ExpectedState), ExpectedState)

\* A _ZUps_VerifyPower that collects the failures and raises nothing.
_ZUps_VerifyPower_Continue(addrs, w, ExpectedState) == VerifyPowerLoop(addrs, w, ExpectedState)

\* _ZUps_VerifyPower(Addresses, PortSerial, ExpectedState).
_ZUps_VerifyPower(addrs, w, ExpectedState) ==
    RaiseIfFailures(VerifyPowerLoop(addrs, w, ExpectedState), "RuntimeError")

\* One iteration of the loop of _ZUps_CleanUp.
CleanUp(Address, w) == WriteAll(<<ADR(Address), Cmd.RMT1, Cmd.DCL, Cmd.FLD2, Cmd.AST0>>, w)

\* _ZUps_CleanUp(Addresses, PortSerial).
RECURSIVE _ZUps_CleanUp(_, _)
_ZUps_CleanUp(addrs, w) ==
    IF addrs = <<>> \/ w.exc # "none" THEN w
    ELSE _ZUps_CleanUp(Tail(addrs), CleanUp(Head(addrs), w))

\* The voltage check of _ZUps_VerifyActualVAs passes: V within +/-_ZUp_VOL_TOLERANCE % of Voltage.
ActualVoltageOK(Voltage, V) ==
    Voltage * (100 - _ZUp_VOL_TOLERANCE) <= V * 100 /\ V * 100 <= Voltage * (100 + _ZUp_VOL_TOLERANCE)

\* The amperage check of _ZUps_VerifyActualVAs passes: 0 <= A <= Amperage * (1 + _ZUp_CUR_TOLERANCE).
ActualAmperageOK(Amperage, A) == 0 <= A /\ A <= Amperage * (1 + _ZUp_CUR_TOLERANCE)

\* A _ZUps_VerifyActualVAs iteration that turns an out-of-tolerance supply off.
ReportActualVA_PowerOff(ZUp, w, V, A) ==
    IF ActualVoltageOK(ZUp.Voltage, V) /\ ActualAmperageOK(ZUp.Amperage, A) THEN w
    ELSE _ZUp_WriteCommand(Cmd.OUT0, [w EXCEPT !.Failures = Append(@, Failure("tolerance", ZUp.Address))])

\* The failure branches of one iteration of _ZUps_VerifyActualVAs.
ReportActualVA(ZUp, w, V, A) ==
    LET w1 == IF ~ActualVoltageOK(ZUp.Voltage, V)
              THEN _ZUp_ReadStatus(ZUp.Address, [w EXCEPT !.Failures = Append(@, Failure("tolerance", ZUp.Address))])
              ELSE w
    IN  IF ~ActualAmperageOK(ZUp.Amperage, A)
        THEN _ZUp_ReadStatus(ZUp.Address, [w1 EXCEPT !.Failures = Append(@, Failure("exceeds", ZUp.Address))])
        ELSE w1

\* One iteration of _ZUps_VerifyActualVAs from the reply q2 to CUR? on, sV being the voltage read.
ReadActualA(ZUp, sV, q2) ==
    LET sA == SubSeq(q2.r, 3, Len(q2.r) - 2)
    IN  IF q2.w.exc # "none" THEN q2.w
        ELSE IF ~IsFloat(sA) THEN raise(q2.w, "ValueError")
        ELSE ReportActualVA(ZUp, q2.w, float(sV), float(sA))

\* One iteration of _ZUps_VerifyActualVAs from the reply q1 to VOL? on.
ReadActualV(ZUp, q1) ==
    LET sV == SubSeq(q1.r, 3, Len(q1.r) - 2)
    IN  IF q1.w.exc # "none" THEN q1.w
        ELSE IF ~IsFloat(sV) THEN raise(q1.w, "ValueError")
        ELSE ReadActualA(ZUp, sV, Query(Cmd.CURq, q1.w))

\* One iteration of the loop of _ZUps_VerifyActualVAs.
VerifyActualVA(ZUp, w) == ReadActualV(ZUp, Query(Cmd.VOLq, _ZUp_WriteCommand(ADR(ZUp.Address), w)))

\* for ZUp in ZUps of _ZUps_VerifyActualVAs, until an iteration raises.
RECURSIVE VerifyActualVALoop(_, _)
VerifyActualVALoop(plan, w) ==
    IF plan = <<>> \/ w.exc # "none" THEN w
    ELSE VerifyActualVALoop(Tail(plan), VerifyActualVA(Head(plan), w))

\* _ZUps_VerifyActualVAs(ZUps, PortSerial), after time.sleep(1).
_ZUps_VerifyActualVAs(plan, w) == RaiseIfFailures(VerifyActualVALoop(plan, w), "RuntimeError")

\* VOL of _ZUps_PowerVAs: the formatted target voltage.
PowerVOL(MDL, V) ==
    IF MDL \in {Model.m6V_33A, Model.m6V_66A, Model.m6V_132A} THEN _Format(V, 1, 3)
    ELSE IF MDL \in {Model.m10V_20A, Model.m10V_40A, Model.m10V_80A, Model.m20V_10A, Model.m20V_20A, Model.m20V_40A} THEN _Format(V, 2, 3)
    ELSE IF MDL \in {Model.m36V_6A, Model.m36V_12A, Model.m36V_24A, Model.m60V_3p5A, Model.m60V_7A, Model.m60V_14A, Model.m80V_2p5A, Model.m80V_5A} THEN _Format(V, 2, 2)
    ELSE _Format(V, 3, 2)

\* CUR of _ZUps_PowerVAs: the formatted target amperage.
PowerCUR(MDL, A) ==
    IF MDL \in {Model.m6V_33A, Model.m6V_66A, Model.m10V_40A, Model.m10V_80A, Model.m20V_40A} THEN _Format(A, 2, 2)
    ELSE IF MDL = Model.m6V_132A THEN _Format(A, 3, 2)
    ELSE IF MDL \in {Model.m10V_20A, Model.m20V_10A, Model.m20V_20A, Model.m36V_12A, Model.m36V_24A, Model.m60V_14A} THEN _Format(A, 2, 3)
    ELSE IF MDL \in {Model.m36V_6A, Model.m60V_3p5A, Model.m60V_7A, Model.m80V_5A, Model.m120V_3p6} THEN _Format(A, 1, 3)
    ELSE _Format(A, 1, 4)

\* UVP and UVPmin of _ZUps_PowerVAs, for uv = Voltage * (1 - _ZUp_VOL_TOLERANCE / 100)
\* (exact when Voltage has at most three decimals).
PowerUVP(MDL, uv) ==
    IF MDL \in {Model.m6V_33A, Model.m6V_66A, Model.m6V_132A, Model.m10V_20A, Model.m10V_40A, Model.m10V_80A} THEN _Format(uv, 1, 2)
    ELSE IF MDL \in {Model.m120V_1p8A, Model.m120V_3p6A} THEN _Format(uv, 3, 1)
    ELSE _Format(uv, 2, 1)

\* An OVP of _ZUps_PowerVAs without the floor for small voltages.
PowerOVP_NoFloor(MDL, ov) ==
    IF MDL \in {Model.m6V_33A, Model.m6V_66A, Model.m6V_132A} THEN _Format(ov, 1, 2)
    ELSE IF MDL \in {Model.m120V_1p8A, Model.m120V_3p6A} THEN _Format(ov, 3, 1)
    ELSE _Format(ov, 2, 1)

\* ov and OVP of _ZUps_PowerVAs, for ov = Voltage * (1 + _ZUp_VOL_TOLERANCE / 100).
PowerOVP(MDL, ov) ==
    LET atLeast(x) == IF ov < x THEN x ELSE ov
    IN  IF MDL \in {Model.m6V_33A, Model.m6V_66A, Model.m6V_132A} THEN _Format(atLeast((2 * Unit) \div 10), 1, 2)
        ELSE IF MDL \in {Model.m10V_20A, Model.m10V_40A, Model.m10V_80A} THEN _Format(atLeast((5 * Unit) \div 10), 2, 1)
        ELSE IF MDL \in {Model.m20V_10A, Model.m20V_20A, Model.m20V_40A} THEN _Format(atLeast((10 * Unit) \div 10), 2, 1)
        ELSE IF MDL \in {Model.m36V_6A, Model.m36V_12A, Model.m36V_24A} THEN _Format(atLeast((18 * Unit) \div 10), 2, 1)
        ELSE IF MDL \in {Model.m60V_3p5A, Model.m60V_7A, Model.m60V_14A} THEN _Format(atLeast((30 * Unit) \div 10), 2, 1)
        ELSE IF MDL \in {Model.m80V_2p5A, Model.m80V_5A} THEN _Format(atLeast((40 * Unit) \div 10), 2, 1)
        ELSE _Format(atLeast((60 * Unit) \div 10), 3, 1)

\* OVPmax of _ZUps_PowerVAs.
PowerOVPmax(MDL) ==
    IF MDL \in {Model.m6V_33A, Model.m6V_66A, Model.m6V_132A} THEN _Format((750 * Unit) \div 100, 1, 2)
    ELSE IF MDL \in {Model.m10V_20A, Model.m10V_40A, Model.m10V_80A} THEN _Format(13 * Unit, 2, 1)
    ELSE IF MDL \in {Model.m20V_10A, Model.m20V_20A, Model.m20V_40A} THEN _Format(24 * Unit, 2, 1)
    ELSE IF MDL \in {Model.m36V_6A, Model.m36V_12A, Model.m36V_24A} THEN _Format(40 * Unit, 2, 1)
    ELSE IF MDL \in {Model.m60V_3p5A, Model.m60V_7A, Model.m60V_14A} THEN _Format(66 * Unit, 2, 1)
    ELSE IF MDL \in {Model.m80V_2p5A, Model.m80V_5A} THEN _Format(88 * Unit, 2, 1)
    ELSE _Format(132 * Unit, 3, 1)

\* A _ZUps_PowerVAs iteration that does not address the supply first.
PowerConfigure_Unaddressed(ZUp) ==
    <<Cmd.RMT2, Cmd.DCL, Cmd.AST0, IF upper(ZUp.Foldback) = sFLD_ON THEN Cmd.FLD1 ELSE Cmd.FLD2, Cmd.SRV0, Cmd.SRT0, Cmd.SRF0>>

\* The commands of one iteration of _ZUps_PowerVAs up to the model query.
PowerConfigure(ZUp) ==
    <<ADR(ZUp.Address), Cmd.RMT2, Cmd.DCL, Cmd.AST0, IF upper(ZUp.Foldback) = sFLD_ON THEN Cmd.FLD1 ELSE Cmd.FLD2, Cmd.SRV0, Cmd.SRT0, Cmd.SRF0>>

\* A _ZUps_PowerVAs iteration that turns the output on after the final limits.
PowerEnergize_OUT1Last(ZUp, MDL, SA) ==
    <<Cmd.VOL \o PowerVOL(MDL, ZUp.Voltage) \o Cmd.End,
      Cmd.CUR \o PowerCUR(MDL, ZUp.Amperage) \o Cmd.End,
      Cmd.OVP \o PowerOVP(MDL, (ZUp.Voltage * (100 + _ZUp_VOL_TOLERANCE)) \div 100) \o Cmd.End,
      Cmd.UVP \o PowerUVP(MDL, (ZUp.Voltage * (100 - _ZUp_VOL_TOLERANCE)) \div 100) \o Cmd.End,
      Cmd.OUT1>>

\* The commands of one iteration of _ZUps_PowerVAs after the set current SA has been read.
PowerEnergize(ZUp, MDL, SA) ==
    LET CUR == Cmd.CUR \o PowerCUR(MDL, ZUp.Amperage) \o Cmd.End
        VOL == Cmd.VOL \o PowerVOL(MDL, ZUp.Voltage) \o Cmd.End
        OVP == Cmd.OVP \o PowerOVP(MDL, (ZUp.Voltage * (100 + _ZUp_VOL_TOLERANCE)) \div 100) \o Cmd.End
        UVP == Cmd.UVP \o PowerUVP(MDL, (ZUp.Voltage * (100 - _ZUp_VOL_TOLERANCE)) \div 100) \o Cmd.End
    IN  (IF ZUp.Amperage > SA THEN <<CUR>> ELSE <<>>) \o <<VOL, Cmd.OUT1, CUR, OVP, UVP>>

\* The commands written one after the other, with time.sleep(0.250) after ':OUT1;'.
RECURSIVE WriteEnergize(_, _)
WriteEnergize(cmds, w) ==
    IF cmds = <<>> \/ w.exc # "none" THEN w
    ELSE WriteEnergize(Tail(cmds), IF Head(cmds) = Cmd.OUT1 THEN sleep(_ZUp_WriteCommand(Cmd.OUT1, w), 250)
                                   ELSE _ZUp_WriteCommand(Head(cmds), w))

\* A _ZUps_PowerVAs iteration that never sets the current before the voltage.
PowerSet_CurrentLast(ZUp, MDL, q) ==
    LET sSA == SubSeq(q.r, 3, Len(q.r) - 2)
    IN  IF q.w.exc # "none" THEN q.w
        ELSE IF ~IsFloat(sSA) THEN raise(q.w, "ValueError")
        ELSE WriteEnergize(PowerEnergize(ZUp, MDL, ZUp.Amperage), q.w)

\* One iteration of _ZUps_PowerVAs from the reply q to CUR! on.
PowerSet(ZUp, MDL, q) ==
    LET sSA == SubSeq(q.r, 3, Len(q.r) - 2)
    IN  IF q.w.exc # "none" THEN q.w
        ELSE IF ~IsFloat(sSA) THEN raise(q.w, "ValueError")
        ELSE WriteEnergize(PowerEnergize(ZUp, MDL, float(sSA)), q.w)

\* The widest protection limits of a model: UVPmin and OVPmax of _ZUps_PowerVAs.
PowerLimits(MDL) == <<Cmd.UVP \o PowerUVP(MDL, 0) \o Cmd.End, Cmd.OVP \o PowerOVPmax(MDL) \o Cmd.End>>

\* One iteration of _ZUps_PowerVAs from the result g of _ZUp_GetModel on.
PowerModel(ZUp, g) ==
    IF g.w.exc # "none" THEN g.w
    ELSE PowerSet(ZUp, g.r, Query(Cmd.CURx, WriteAll(PowerLimits(g.r), g.w)))

\* One iteration of the loop of _ZUps_PowerVAs.
PowerVA(ZUp, w) == PowerModel(ZUp, _ZUp_GetModel(WriteAll(PowerConfigure(ZUp), w)))

\* _ZUps_PowerVAs(ZUps, PortSerial).
RECURSIVE _ZUps_PowerVAs(_, _)
_ZUps_PowerVAs(plan, w) ==
    IF plan = <<>> \/ w.exc # "none" THEN w
    ELSE _ZUps_PowerVAs(Tail(plan), PowerVA(Head(plan), w))

-----------------------------------------------------------------------------
(* Inputs of the sequencer and the states it can start from *)

\* Longest plan and address list a call is given.
MaxPlan == 2

\* Most writes a phase completes before a write raises, when one does.
MaxFault == 2

sFLD_off == <<"F", "L", "D", "_", "o", "f", "f">>
s_FLD_off == <<" ", "F", "L", "D", "_", "o", "f", "f">>

ZUp(Address, Voltage, Amperage, Foldback) ==
    [Address |-> Address, Voltage |-> Voltage, Amperage |-> Amperage, Foldback |-> Foldback]

\* Voltage, amperage and foldback of the plan entries tried: two valid ones, an amperage
\* between 105 % and 600 % of every rated current, a negative amperage, a voltage above
\* every rated voltage, a misspelt foldback flag, an amperage above 600 % of rated.
Profiles ==
    { <<(33 * Unit) \div 10, Unit, sFLD_off>>,
      <<5 * Unit, Unit, sFLD_ON>>,
      <<5 * Unit, 20 * Unit, sFLD_off>>,
      <<5 * Unit, 0 - Unit, sFLD_off>>,
      <<40 * Unit, Unit, sFLD_ON>>,
      <<(33 * Unit) \div 10, Unit, s_FLD_off>>,
      <<5 * Unit, 70 * Unit, sFLD_ON>> }

PlanEntries ==
    { ZUp(a, p[1], p[2], p[3]) : a \in {1, 2}, p \in Profiles }
    \cup { ZUp(40, p[1], p[2], p[3]) : p \in { q \in Profiles : q[1] < 5 * Unit } }

SeqsUpTo(S, n) == UNION { [1..k -> S] : k \in 1..n }

Plans == SeqsUpTo(PlanEntries, MaxPlan)

AddressLists == SeqsUpTo({1, 2, 40}, MaxPlan)

Bauds == {9600, 115200}

\* -1: no write fails.
Fuels == {-1} \cup 0..MaxFault

\* A supply before the call: off at 0 V / 0.5 A, or on at 5 V / 3 A.
InitialStates == { DevState(0, Unit \div 2, 0), DevState(5 * Unit, 3 * Unit, 1) }

\* The supplies of the bus before the call: all off, or all on.
InitialBuses == { [a \in Devices |-> Supply(Catalog(a), s)] : s \in InitialStates }

\* What a supply's output may measure once energized: <<volts, amperes>>.
Measurements ==
    { <<(33 * Unit) \div 10, Unit \div 2>>, <<5 * Unit, Unit \div 2>>, <<5 * Unit, 3 * Unit>>, <<(45 * Unit) \div 10, 7 * Unit>> }

Ports == {"COM1", "COM2"}

\* The call record before any call.
NoCall == [n |-> 0, method |-> "none"]

\* The bus behind a port of the class: no supply addressed yet, nothing to read.
Bus(d) == [listen |-> 0, dev |-> d, rx |-> <<>>]

\* The sequencer idle with its port closed.
InitSequencer ==
    /\ pc = "idle" /\ call = "none" /\ ZUps = <<>> /\ Addresses = <<>> /\ Baud = 0
    /\ is_open = FALSE /\ opens = 0 /\ wire = <<>> /\ rx = <<>>
    /\ dev0 = dev
    /\ exc = "none" /\ Failures = <<>>
    /\ gaps = <<>> /\ idle = 0

\* The Zup class as loaded: the map empty, no object yet.
InitClass ==
    /\ listening_addresses = [p \in {} |-> 0] /\ handles = {}
    /\ zwire = [p \in Ports |-> <<>>] /\ issued = [p \in Ports |-> <<>>]
    /\ zgaps = [p \in Ports |-> <<>>] /\ zidle = [p \in Ports |-> 0]
    /\ zopen = [p \in Ports |-> TRUE] /\ threads = <<>>

Init ==
    /\ listen \in Devices
    /\ dev \in InitialBuses
    /\ InitSequencer
    /\ InitClass
    /\ last = NoCall
    /\ zbus = [p \in Ports |-> Bus([a \in Devices |-> Supply(Catalog(a), DevState(0, Unit \div 2, 0))])]

zupVars == <<listening_addresses, handles, zwire, issued, zbus, zgaps, zidle, zopen, threads, last>>

\* The port, the bus and the supplies as one record, with the fuel of the phase.
World(fuel) ==
    [is_open |-> is_open, opens |-> opens, wire |-> wire, rx |-> rx, listen |-> listen,
     dev |-> dev, exc |-> exc, Failures |-> Failures, gaps |-> gaps, idle |-> idle, fuel |-> fuel]

\* The state after a phase: the world it left, at next unless it raised.
Commit(w, next) ==
    /\ is_open' = w.is_open /\ opens' = w.opens /\ wire' = w.wire /\ rx' = w.rx
    /\ listen' = w.listen /\ dev' = w.dev /\ exc' = w.exc /\ Failures' = w.Failures
    /\ gaps' = w.gaps /\ idle' = w.idle
    /\ pc' = IF w.exc # "none" THEN "raised" ELSE next
    /\ UNCHANGED <<ZUps, Addresses, Baud, call, dev0, zupVars>>

seqVars == <<pc, ZUps, Addresses, is_open, opens, wire, rx, listen, dev, exc, Failures, gaps, idle, dev0, call, Baud>>

-----------------------------------------------------------------------------
(* ZUps_ON and ZUps_off, one action per function they call *)

\* ZUps_ON(ZUps=plan, SerialPort, Baud=baud) is called; Addresses = _ZUps_GetAddresses(ZUps).
CallZUps_ON ==
    /\ pc = "idle"
    /\ \E plan \in Plans, baud \in Bauds :
        /\ call' = "ZUps_ON" /\ ZUps' = plan /\ Addresses' = _ZUps_GetAddresses(plan) /\ Baud' = baud
    /\ pc' = "_ZUps_VerifyAddresses"
    /\ UNCHANGED <<is_open, opens, wire, rx, listen, dev, exc, Failures, gaps, idle, dev0, zupVars>>

\* ZUps_off(Addresses=addrs, SerialPort, Baud=baud) is called.
CallZUps_off ==
    /\ pc = "idle"
    /\ \E addrs \in AddressLists, baud \in Bauds :
        /\ call' = "ZUps_off" /\ Addresses' = addrs /\ Baud' = baud
    /\ pc' = "_ZUps_VerifyAddresses"
    /\ UNCHANGED <<ZUps, is_open, opens, wire, rx, listen, dev, exc, Failures, gaps, idle, dev0, zupVars>>

\* A pure verification step: raise ValueError with the lines f, or go on to next.
Verified(f, next) ==
    IF f # <<>> THEN Commit([World(-1) EXCEPT !.exc = "ValueError", !.Failures = f], next)
    ELSE Commit(World(-1), next)

VerifyAddresses ==
    /\ pc = "_ZUps_VerifyAddresses"
    /\ Verified(_ZUps_VerifyAddresses(Addresses), IF call = "ZUps_ON" THEN "_ZUps_VerifyFoldbacks" ELSE "_ZUps_VerifyBaud")

VerifyFoldbacks ==
    /\ pc = "_ZUps_VerifyFoldbacks"
    /\ Verified(_ZUps_VerifyFoldbacks(ZUps), "_ZUps_VerifyBaud")

VerifyBaud ==
    /\ pc = "_ZUps_VerifyBaud"
    /\ Verified(IF _ZUps_VerifyBaud(Baud) THEN <<>> ELSE <<Failure("Baud", -1)>>, "_ZUps_GetPortSerial")

GetPortSerial ==
    /\ pc = "_ZUps_GetPortSerial"
    /\ Commit(_ZUps_GetPortSerial(World(-1)), IF call = "ZUps_ON" THEN "_ZUps_VerifySetVAs" ELSE "_ZUps_SetPower")

VerifySetVAs ==
    /\ pc = "_ZUps_VerifySetVAs"
    /\ \E fuel \in Fuels : Commit(_ZUps_VerifySetVAs(ZUps, World(fuel)), "_ZUps_PowerVAs")

PowerVAs ==
    /\ pc = "_ZUps_PowerVAs"
    /\ \E fuel \in Fuels : Commit(_ZUps_PowerVAs(ZUps, World(fuel)), "_ZUps_VerifyActualVAs")

\* The supplies of the plan as they measure after time.sleep(1).
Settled(w, m) ==
    sleep([w EXCEPT !.dev = [a \in Devices |-> IF a \in DOMAIN m THEN [@[a] EXCEPT !.av = m[a][1], !.aa = m[a][2]] ELSE @[a]]],
          1000)

VerifyActualVAs ==
    /\ pc = "_ZUps_VerifyActualVAs"
    /\ \E fuel \in Fuels, m \in [{Addresses[i] : i \in 1..Len(Addresses)} \cap Devices -> Measurements] :
        Commit(_ZUps_VerifyActualVAs(ZUps, Settled(World(fuel), m)), "close")

\* The supplies in g do not turn off when told to.
Stuck(w, g) == [w EXCEPT !.dev = [a \in Devices |-> [@[a] EXCEPT !.stuck = a \in g]]]

SetPower_off ==
    /\ pc = "_ZUps_SetPower"
    /\ \E fuel \in Fuels, g \in SUBSET Devices :
        Commit(_ZUps_SetPower(Addresses, Stuck(World(fuel), g), "off"), "_ZUps_VerifyPower")

VerifyPower_off ==
    /\ pc = "_ZUps_VerifyPower"
    /\ \E fuel \in Fuels : Commit(_ZUps_VerifyPower(Addresses, World(fuel), "off"), "_ZUps_CleanUp")

CleanUp_off ==
    /\ pc = "_ZUps_CleanUp"
    /\ \E fuel \in Fuels : Commit(_ZUps_CleanUp(Addresses, World(fuel)), "close")

\* PortSerial.close(); return None.
Close ==
    /\ pc = "close"
    /\ Commit(close(World(-1)), "returned")

Next ==
    \/ CallZUps_ON \/ CallZUps_off
    \/ VerifyAddresses \/ VerifyFoldbacks \/ VerifyBaud \/ GetPortSerial
    \/ VerifySetVAs \/ PowerVAs \/ VerifyActualVAs
    \/ SetPower_off \/ VerifyPower_off \/ CleanUp_off
    \/ Close

Spec == Init /\ [][Next]_vars

-----------------------------------------------------------------------------
(* The Zup class: src/Zup.py.  Every method of a handle writes through      *)
(* _write_command, which consults the class-wide map listening_addresses    *)
(* (port -> address last addressed through the class).  A class state z is  *)
(* the record of the map, the ports' wires, buses and clocks and the log of *)
(* calls; z.exc and z.fuel are as in the sequencer.  An argument of a       *)
(* method is a record [type, val] of its Python type and value.             *)

\* Most calls of _write_command in a behaviour.
MaxCalls == 5

\* The addresses handles are constructed with.
ZupAddresses == {1, 2}

\* ':ADR{};'.format('{:0>2d}'.format(self.address)).
ZupADR(address) == Cmd.ADR \o PadLeft(StrNat(address), "0", 2) \o Cmd.End

\* A _write_command that addresses the supply before every command.
MustAddress_Always(la, self) == TRUE

\* The test of _write_command: the port has no listening address yet, or another one.
MustAddress(la, self) == self.port \notin DOMAIN la \/ la[self.port] # self.address

\* An update that stores the address under every port.
update_EveryPort(la, port, address) == [p \in Ports |-> address]

\* Zup.listening_addresses.update({port : address}).
update(la, port, address) == [p \in DOMAIN la \cup {port} |-> IF p = port THEN address ELSE la[p]]

ZWorld(fuel) ==
    [la |-> listening_addresses, zwire |-> zwire, issued |-> issued, bus |-> zbus, gaps |-> zgaps, idle |-> zidle,
     open |-> zopen, exc |-> "none", fuel |-> fuel]

\* time.sleep(ms / 1000) in the class: every port has been idle that much longer.
zsleep(z, ms) ==
    IF z.exc # "none" THEN z
    ELSE [z EXCEPT !.idle = [p \in DOMAIN @ |-> IF @[p] + ms > MaxIdle THEN MaxIdle ELSE @[p] + ms]]

\* self.serial_port.write(data.encode('utf-8')): the bytes reach the bus of the port;
\* pySerial raises PortNotOpenError, a SerialException, on a closed port.
serial_write(z, port, data) ==
    IF z.exc # "none" THEN z
    ELSE IF ~z.open[port] \/ z.fuel = 0 THEN [z EXCEPT !.exc = "SerialException"]
    ELSE [z EXCEPT !.zwire[port] = Append(@, data), !.gaps[port] = Append(@, z.idle[port]), !.idle[port] = 0,
                   !.bus[port] = Deliver(@, data), !.fuel = IF @ > 0 THEN @ - 1 ELSE @]

\* The addressing branch of _write_command: the map is updated, then ADR is written
\* between its two delays.
Addressed(z, self) ==
    IF MustAddress(z.la, self)
    THEN zsleep(serial_write(zsleep([z EXCEPT !.la = update(@, self.port, self.address)], 15),
                             self.port, ZupADR(self.address)), 35)
    ELSE z

\* Zup._write_command(self, command).
_write_command(z, self, command) == zsleep(serial_write(Addressed(z, self), self.port, command), 20)

\* The log entry of a call of _write_command that took the class from z0 to z1:
\* the handle's address, the command, what the call transmitted, whether it returned.
Logged(z0, z1, self, command) ==
    [z1 EXCEPT !.issued[self.port] =
        Append(@, [address |-> self.address, command |-> command, ok |-> z1.exc = "none",
                   sent |-> SubSeq(z1.zwire[self.port], Len(z0.zwire[self.port]) + 1, Len(z1.zwire[self.port]))])]

\* A method's call of self._write_command(command), unless the method has already raised.
Call(z, self, command) ==
    IF z.exc # "none" THEN z ELSE Logged(z, _write_command(z, self, command), self, command)

Calls == Len(issued["COM1"]) + Len(issued["COM2"])

\* s.replace(old, ''): s without the occurrences of old, found from the left.
RECURSIVE remove(_, _)
remove(s, old) ==
    IF Len(s) < Len(old) THEN s
    ELSE IF SubSeq(s, 1, Len(old)) = old THEN remove(SubSeq(s, Len(old) + 1, Len(s)), old)
    ELSE <<Head(s)>> \o remove(Tail(s), old)

\* Zup._read_response(self): the next line without its '\r\n', '' when the read times out.
_read_response(z, self) ==
    IF z.exc # "none" THEN [z |-> z, r |-> <<>>]
    ELSE IF z.bus[self.port].rx = <<>> THEN [z |-> z, r |-> <<>>]
    ELSE [z |-> [z EXCEPT !.bus[self.port].rx = Tail(@)], r |-> remove(Head(z.bus[self.port].rx), CRLF)]

\* float(reply.replace(prefix, '')) of a getter: ValueError unless what is left is a number.
Reading(q, prefix) ==
    IF q.z.exc # "none" THEN [z |-> q.z, r |-> 0]
    ELSE IF ~IsFloat(remove(q.r, prefix)) THEN [z |-> raise(q.z, "ValueError"), r |-> 0]
    ELSE [z |-> q.z, r |-> float(remove(q.r, prefix))]

\* Zup.get_voltage_set(self).
get_voltage_set(z, self) == Reading(_read_response(Call(z, self, Cmd.VOLx), self), <<"S", "V">>)

\* Zup.get_under_voltage_protection(self).
get_under_voltage_protection(z, self) == Reading(_read_response(Call(z, self, Cmd.UVPq), self), <<"U", "P">>)

\* Zup.get_over_voltage_protection(self).
get_over_voltage_protection(z, self) == Reading(_read_response(Call(z, self, Cmd.OVPq), self), <<"O", "P">>)

\* An argument that is an int or a float.
IsReal(x) == x.type \in {"int", "float"}

\* ':KEY{};' with the value in the format of a table entry.
Formatted(key, Format, x) == key \o format(Format, x) \o Cmd.End

\* A set_amperage that writes the command before it tests the range.
set_amperage_WriteFirst(z, self, amps) ==
    IF ~IsReal(amps) THEN raise(z, "TypeError")
    ELSE IF ~(self.CUR.min <= amps.val /\ amps.val <= self.CUR.MAX)
         THEN raise(Call(z, self, Formatted(Cmd.CUR, self.CUR.Format, amps.val)), "ValueError")
    ELSE Call(z, self, Formatted(Cmd.CUR, self.CUR.Format, amps.val))

\* Zup.set_amperage(self, amps).
set_amperage(z, self, amps) ==
    IF ~IsReal(amps) THEN raise(z, "TypeError")
    ELSE IF ~(self.CUR.min <= amps.val /\ amps.val <= self.CUR.MAX) THEN raise(z, "ValueError")
    ELSE Call(z, self, Formatted(Cmd.CUR, self.CUR.Format, amps.val))

\* The ValueError of set_voltage for a voltage outside the present limits: its message
\* reads both limits from the supply.
VoltageRefused(z, self) ==
    raise(get_over_voltage_protection(get_under_voltage_protection(z, self).z, self).z, "ValueError")

\* set_voltage once the over-voltage limit has been read (q): volts <= OVP / 1.05.
VoltageBelowOVP(self, volts, q) ==
    IF q.z.exc # "none" THEN q.z
    ELSE IF volts.val * 105 <= q.r * 100 THEN Call(q.z, self, Formatted(Cmd.VOL, self.VOL.Format, volts.val))
    ELSE VoltageRefused(q.z, self)

\* set_voltage once the under-voltage limit has been read (q): UVP / 0.95 <= volts, and only
\* then is the over-voltage limit read.
VoltageAboveUVP(self, volts, q) ==
    IF q.z.exc # "none" THEN q.z
    ELSE IF q.r * 100 <= volts.val * 95 THEN VoltageBelowOVP(self, volts, get_over_voltage_protection(q.z, self))
    ELSE VoltageRefused(q.z, self)

\* A set_voltage that reads the present limits before it looks at the model's range.
set_voltage_QueryFirst(z, self, volts) ==
    IF ~IsReal(volts) THEN raise(z, "TypeError")
    ELSE VoltageAboveUVP(self, volts, get_under_voltage_protection(z, self))

\* Zup.set_voltage(self, volts).
set_voltage(z, self, volts) ==
    IF ~IsReal(volts) THEN raise(z, "TypeError")
    ELSE IF ~(self.VOL.min <= volts.val /\ volts.val <= self.VOL.MAX) THEN raise(z, "ValueError")
    ELSE VoltageAboveUVP(self, volts, get_under_voltage_protection(z, self))

\* The ValueError of the two protection setters for a limit on the wrong side of the
\* set voltage: its message reads the set voltage from the supply.
LimitRefused(z, self) == raise(get_voltage_set(z, self).z, "ValueError")

\* set_under_voltage_protection once the set voltage has been read (q): volts <= VOL * 0.95.
UVPBelowVoltage(self, volts, q) ==
    IF q.z.exc # "none" THEN q.z
    ELSE IF volts.val * 100 <= q.r * 95 THEN Call(q.z, self, Formatted(Cmd.UVP, self.UVP.Format, volts.val))
    ELSE LimitRefused(q.z, self)

\* A set_under_voltage_protection that reads the set voltage before it looks at the model's range.
set_under_voltage_protection_QueryFirst(z, self, volts) ==
    IF ~IsReal(volts) THEN raise(z, "TypeError")
    ELSE UVPBelowVoltage(self, volts, get_voltage_set(z, self))

\* Zup.set_under_voltage_protection(self, volts).
set_under_voltage_protection(z, self, volts) ==
    IF ~IsReal(volts) THEN raise(z, "TypeError")
    ELSE IF ~(self.UVP.min <= volts.val /\ volts.val <= self.UVP.MAX) THEN raise(z, "ValueError")
    ELSE UVPBelowVoltage(self, volts, get_voltage_set(z, self))

\* set_over_voltage_protection once the set voltage has been read (q): VOL * 1.05 <= volts;
\* the command is formatted with the model's UVP format.
OVPAboveVoltage(self, volts, q) ==
    IF q.z.exc # "none" THEN q.z
    ELSE IF q.r * 105 <= volts.val * 100 THEN Call(q.z, self, Formatted(Cmd.OVP, self.UVP.Format, volts.val))
    ELSE LimitRefused(q.z, self)

\* Zup.set_over_voltage_protection(self, volts).
set_over_voltage_protection(z, self, volts) ==
    IF ~IsReal(volts) THEN raise(z, "TypeError")
    ELSE IF ~(self.OVP.min <= volts.val /\ volts.val <= self.OVP.MAX) THEN raise(z, "ValueError")
    ELSE OVPAboveVoltage(self, volts, get_voltage_set(z, self))

\* Zup.set_remote_mode(self, state), state as state.title() spells it.
set_remote_mode(z, self, state) ==
    IF state \notin {"Local", "Remote Unlatched", "Remote Latched"} THEN raise(z, "ValueError")
    ELSE Call(z, self, CASE state = "Local" -> Cmd.RMT0
                         [] state = "Remote Unlatched" -> Cmd.RMT1
                         [] OTHER -> Cmd.RMT2)

\* Zup.get_model(self) as a method: the reply to ':MDL?;'.
Zup_get_model(z, self) == _read_response(Call(z, self, Cmd.MDLq), self)

\* The argument checks of __init__: the exception raised, "none" for valid arguments.
InitError(address, serial_port) ==
    IF address.type # "int" THEN "TypeError"
    ELSE IF address.val \notin ADDRESS_RANGE THEN "ValueError"
    ELSE IF serial_port.baudrate \notin BAUD_RATES THEN "ValueError"
    ELSE "none"

\* The table entries of a resolution that takes the UVP entry from the OVP table.
Resolved_UVPFromOVPs(reply) ==
    LET mdl == SubSeq(reply, index(reply, "(") + 1, index(reply, ")") - 1)
    IN  IF index(reply, "(") = 0 \/ index(reply, ")") = 0 THEN [exc |-> "ValueError"]
        ELSE IF index(mdl, "V") = 0 \/ index(mdl, "-") = 0 \/ index(mdl, "A") = 0 THEN [exc |-> "ValueError"]
        ELSE IF ZUPva(ModelV(mdl), ModelA(mdl)) \notin DOMAIN CURs THEN [exc |-> "KeyError"]
        ELSE IF ZUPxy(ModelV(mdl)) \notin (DOMAIN VOLs \cap DOMAIN OVPs \cap DOMAIN UVPs) THEN [exc |-> "KeyError"]
        ELSE [exc |-> "none", CUR |-> CURs[ZUPva(ModelV(mdl), ModelA(mdl))], VOL |-> VOLs[ZUPxy(ModelV(mdl))],
              OVP |-> OVPs[ZUPxy(ModelV(mdl))], UVP |-> OVPs[ZUPxy(ModelV(mdl))]]

\* What __init__ makes of the reply to get_model(): the exception of the str.index() or of the
\* table lookup that fails, or the four table entries of the model.
Resolved(reply) ==
    LET mdl == SubSeq(reply, index(reply, "(") + 1, index(reply, ")") - 1)
    IN  IF index(reply, "(") = 0 \/ index(reply, ")") = 0 THEN [exc |-> "ValueError"]
        ELSE IF index(mdl, "V") = 0 \/ index(mdl, "-") = 0 \/ index(mdl, "A") = 0 THEN [exc |-> "ValueError"]
        ELSE IF ZUPva(ModelV(mdl), ModelA(mdl)) \notin DOMAIN CURs THEN [exc |-> "KeyError"]
        ELSE IF ZUPxy(ModelV(mdl)) \notin (DOMAIN VOLs \cap DOMAIN OVPs \cap DOMAIN UVPs) THEN [exc |-> "KeyError"]
        ELSE [exc |-> "none", CUR |-> CURs[ZUPva(ModelV(mdl), ModelA(mdl))], VOL |-> VOLs[ZUPxy(ModelV(mdl))],
              OVP |-> OVPs[ZUPxy(ModelV(mdl))], UVP |-> UVPs[ZUPxy(ModelV(mdl))]]

\* The object while __init__ runs: its address and port.
Bare(address, serial_port) == [address |-> address.val, port |-> serial_port.port]

\* __init__ once get_model() has returned (q): the handle with its four table entries,
\* or the exception of the resolution.
Constructed(self, q) ==
    IF q.z.exc # "none" THEN [z |-> q.z, self |-> self]
    ELSE IF Resolved(q.r).exc # "none" THEN [z |-> raise(q.z, Resolved(q.r).exc), self |-> self]
    ELSE [z |-> q.z, self |-> self @@ [CUR |-> Resolved(q.r).CUR, VOL |-> Resolved(q.r).VOL,
                                       OVP |-> Resolved(q.r).OVP, UVP |-> Resolved(q.r).UVP]]

\* An __init__ that also switches the output off.
__init___OutputOff(z, address, serial_port) ==
    IF InitError(address, serial_port) # "none"
    THEN [z |-> raise(z, InitError(address, serial_port)), self |-> Bare(address, serial_port)]
    ELSE Constructed(Bare(address, serial_port),
                     Zup_get_model(Call(set_remote_mode(z, Bare(address, serial_port), "Remote Latched"),
                                        Bare(address, serial_port), Cmd.OUT0),
                                   Bare(address, serial_port)))

\* An __init__ that leaves the front panel unlatched.
__init___Unlatched(z, address, serial_port) ==
    IF InitError(address, serial_port) # "none"
    THEN [z |-> raise(z, InitError(address, serial_port)), self |-> Bare(address, serial_port)]
    ELSE Constructed(Bare(address, serial_port),
                     Zup_get_model(set_remote_mode(z, Bare(address, serial_port), "Remote Unlatched"),
                                   Bare(address, serial_port)))

\* An __init__ that checks its arguments only after it has set the remote mode.
__init___CheckLate(z, address, serial_port) ==
    IF InitError(address, serial_port) # "none"
    THEN [z |-> raise(set_remote_mode(z, Bare(address, serial_port), "Remote Latched"), InitError(address, serial_port)),
          self |-> Bare(address, serial_port)]
    ELSE Constructed(Bare(address, serial_port),
                     Zup_get_model(set_remote_mode(z, Bare(address, serial_port), "Remote Latched"),
                                   Bare(address, serial_port)))

\* Zup.__init__(self, address, serial_port): the class afterwards and the object.
__init__(z, address, serial_port) ==
    IF InitError(address, serial_port) # "none"
    THEN [z |-> raise(z, InitError(address, serial_port)), self |-> Bare(address, serial_port)]
    ELSE Constructed(Bare(address, serial_port),
                     Zup_get_model(set_remote_mode(z, Bare(address, serial_port), "Remote Latched"),
                                   Bare(address, serial_port)))

ZCommit(z) ==
    /\ listening_addresses' = z.la /\ zwire' = z.zwire /\ issued' = z.issued
    /\ zbus' = z.bus /\ zgaps' = z.gaps /\ zidle' = z.idle /\ zopen' = z.open
    /\ UNCHANGED <<seqVars, threads>>

\* The handles after a construction: one more when __init__ returned.
Produced(r) == IF r.z.exc = "none" THEN handles \cup {r.self} ELSE handles

\* Zup(address, serial_port) on a port of the standard bus, the writes of which may fail.
Zup__init__ ==
    /\ Calls + 2 <= MaxCalls
    /\ \E address \in ZupAddresses, port \in Ports, fuel \in Fuels :
        /\ ZCommit(__init__(ZWorld(fuel), [type |-> "int", val |-> address], [port |-> port, baudrate |-> 9600]).z)
        /\ handles' = Produced(__init__(ZWorld(fuel), [type |-> "int", val |-> address], [port |-> port, baudrate |-> 9600]))
    /\ UNCHANGED last

\* self.set_power(state).
set_power ==
    /\ Calls + 1 <= MaxCalls
    /\ \E self \in handles, state \in {"Off", "On"}, fuel \in Fuels :
        ZCommit(Call(ZWorld(fuel), self, IF state = "Off" THEN Cmd.OUT0 ELSE Cmd.OUT1))
    /\ UNCHANGED <<handles, last>>

\* self.get_model().
get_model ==
    /\ Calls + 1 <= MaxCalls
    /\ \E self \in handles, fuel \in Fuels : ZCommit(Zup_get_model(ZWorld(fuel), self).z)
    /\ UNCHANGED <<handles, last>>

\* No handle yet, the sequencer idle.
InitZup == Init /\ listen = 1 /\ dev = [a \in Devices |-> Supply(Catalog(a), DevState(0, Unit \div 2, 0))]

NextZup == Zup__init__ \/ set_power \/ get_model

SpecZup == InitZup /\ [][NextZup]_vars

-----------------------------------------------------------------------------
(* Constructing handles and programming limits through them, on one port    *)
(* behind which every supply is of one model; no write fails.               *)

\* Most calls of a constructor or setter in a behaviour.
MaxOps == 2

\* x cut to T decimals.
Trunc(x, T) == (x \div Pow10(4 - T)) * Pow10(4 - T)

\* The model strings a supply may report.
Models == {Model[f] : f \in DOMAIN Model}

\* The registers a supply of model mdl starts with: as Zup.configure() leaves them (limits
\* wide open, everything zero), or programmed to about half the rated values and powered.
Registers(mdl, programmed) ==
    IF ~Listed(mdl) THEN DevState(0, 0, 0)
    ELSE IF programmed
    THEN [DevState(Trunc(VOLs[ZUPxy(ModelV(mdl))].MAX \div 2, VOLs[ZUPxy(ModelV(mdl))].Format.precision),
                   Trunc(CURs[ZUPva(ModelV(mdl), ModelA(mdl))].MAX \div 2, CURs[ZUPva(ModelV(mdl), ModelA(mdl))].Format.precision),
                   1)
            EXCEPT !.uvp = Trunc(UVPs[ZUPxy(ModelV(mdl))].MAX \div 4, UVPs[ZUPxy(ModelV(mdl))].Format.precision),
                   !.ovp = Trunc((OVPs[ZUPxy(ModelV(mdl))].MAX * 3) \div 5, OVPs[ZUPxy(ModelV(mdl))].Format.precision)]
    ELSE [DevState(0, 0, 0) EXCEPT !.uvp = UVPs[ZUPxy(ModelV(mdl))].min, !.ovp = OVPs[ZUPxy(ModelV(mdl))].MAX]

InitialSupplies == { Supply(Installed(mdl), Registers(mdl, programmed)) : mdl \in Models, programmed \in BOOLEAN }

\* The address arguments: two supplies, an address out of range, a str, an address nobody answers at.
AddressArgs ==
    { [type |-> "int", val |-> 1], [type |-> "int", val |-> 2], [type |-> "int", val |-> 42],
      [type |-> "str", val |-> 1], [type |-> "int", val |-> 4] }

\* The values a setter is called with for a quantity of table entry t: a str, one unit below
\* and above the range, both ends of the range, the middle of the range and the int 1.
ValueArgs(t) ==
    { [type |-> "str", val |-> t.MAX], [type |-> "float", val |-> t.min - Unit], [type |-> "float", val |-> t.MAX + Unit],
      [type |-> "float", val |-> t.MAX], [type |-> "float", val |-> t.min],
      [type |-> "float", val |-> Trunc(t.MAX \div 2, t.Format.precision)], [type |-> "int", val |-> Unit] }

\* The record of a call of method on self with arg that left the class as z: the exception,
\* the commands it transmitted, and the map and the bus as they were before it.
Did(method, self, arg, z) ==
    last' = [n |-> last.n + 1, method |-> method, self |-> self, arg |-> arg, exc |-> z.exc,
             sent |-> SubSeq(z.zwire[self.port], Len(zwire[self.port]) + 1, Len(z.zwire[self.port])),
             la |-> listening_addresses, bus |-> zbus[self.port]]

\* Zup(address, serial_port).
Construct ==
    /\ last.n < MaxOps
    /\ \E address \in AddressArgs, baudrate \in Bauds :
        LET r == __init__(ZWorld(-1), address, [port |-> "COM1", baudrate |-> baudrate])
        IN  /\ ZCommit(r.z)
            /\ handles' = Produced(r)
            /\ Did("__init__", r.self, [address |-> address, baudrate |-> baudrate], r.z)

\* self.set_voltage(volts).
SetVoltage ==
    /\ last.n < MaxOps
    /\ \E self \in handles : \E volts \in ValueArgs(self.VOL) :
        /\ ZCommit(set_voltage(ZWorld(-1), self, volts))
        /\ Did("set_voltage", self, volts, set_voltage(ZWorld(-1), self, volts))
    /\ UNCHANGED handles

\* self.set_amperage(amperes).
SetAmperage ==
    /\ last.n < MaxOps
    /\ \E self \in handles : \E amperes \in ValueArgs(self.CUR) :
        /\ ZCommit(set_amperage(ZWorld(-1), self, amperes))
        /\ Did("set_amperage", self, amperes, set_amperage(ZWorld(-1), self, amperes))
    /\ UNCHANGED handles

\* self.set_under_voltage_protection(volts).
SetUnderVoltageProtection ==
    /\ last.n < MaxOps
    /\ \E self \in handles : \E volts \in ValueArgs(self.UVP) :
        /\ ZCommit(set_under_voltage_protection(ZWorld(-1), self, volts))
        /\ Did("set_under_voltage_protection", self, volts, set_under_voltage_protection(ZWorld(-1), self, volts))
    /\ UNCHANGED handles

\* self.set_over_voltage_protection(volts).
SetOverVoltageProtection ==
    /\ last.n < MaxOps
    /\ \E self \in handles : \E volts \in ValueArgs(self.OVP) :
        /\ ZCommit(set_over_voltage_protection(ZWorld(-1), self, volts))
        /\ Did("set_over_voltage_protection", self, volts, set_over_voltage_protection(ZWorld(-1), self, volts))
    /\ UNCHANGED handles

\* The class as loaded, every supply behind the ports of one model.
InitSet ==
    /\ listen = 1 /\ dev = [a \in Devices |-> Supply(Catalog(a), DevState(0, Unit \div 2, 0))]
    /\ InitSequencer
    /\ InitClass
    /\ last = NoCall
    /\ \E s \in InitialSupplies : zbus = [p \in Ports |-> Bus([a \in Devices |-> s])]

NextSet == Construct \/ SetVoltage \/ SetAmperage \/ SetUnderVoltageProtection \/ SetOverVoltageProtection

SpecSet == InitSet /\ [][NextSet]_vars

-----------------------------------------------------------------------------
(* Both programs over their ports: one call of the sequencer, or calls of   *)
(* the Zup class, from the same start.                                      *)

NextSequencer == Calls = 0 /\ Next

NextClass == pc = "idle" /\ NextZup

NextTiming == NextSequencer \/ NextClass

SpecTiming == Init /\ [][NextTiming]_vars

-----------------------------------------------------------------------------
(* The two formatters as functions: a format of FORMATS and a value are     *)
(* drawn, then both formatters are applied to them.                         *)

\* The values formatted, in units of 10^-4: none lies halfway between two neighbours at
\* one, two or three decimals.
FormatValues ==
    { 0, 4, 449, 12346, 50000, 99949, 99960, 99996, 123456, 500000, 999491, 999961, 999996,
      1234567, 9999491, 9999961 }

InitFormat ==
    /\ listen = 1 /\ dev = [a \in Devices |-> Supply(Catalog(a), DevState(0, Unit \div 2, 0))]
    /\ InitSequencer
    /\ InitClass
    /\ zbus = [p \in Ports |-> Bus(dev)]
    /\ \E key \in DOMAIN FORMATS, value \in FormatValues :
        last = [n |-> 0, method |-> "none", arg |-> [key |-> key, value |-> value]]

\* FORMATS[key].format(value) and _Format(value, digitsLeading, digitsTrailing) for the same
\* numbers of digits.
ApplyFormat ==
    /\ last.n = 0
    /\ last' = [n |-> 1, method |-> "format", arg |-> last.arg,
                ret |-> format(FORMATS[last.arg.key], last.arg.value),
                legacy |-> _Format(last.arg.value, Layout(FORMATS[last.arg.key])[1], Layout(FORMATS[last.arg.key])[2])]
    /\ UNCHANGED <<seqVars, listening_addresses, handles, zwire, issued, zbus, zgaps, zidle, zopen, threads>>

NextFormat == ApplyFormat

SpecFormat == InitFormat /\ [][NextFormat]_vars

-----------------------------------------------------------------------------
(* Both programs before a supply of a model that no table lists: the supply *)
(* at address 1 reports 36 V with 10 A, or 40 V with 5 A.                   *)

UnknownModels == {Model.m36V_10A, Model.m40V_5A}

InitUnknown ==
    /\ listen \in Devices
    /\ \E mdl \in UnknownModels, s \in InitialStates :
        dev = [a \in Devices |-> Supply(IF a = 1 THEN Installed(mdl) ELSE Catalog(a), s)]
    /\ InitSequencer
    /\ InitClass
    /\ last = NoCall
    /\ zbus = [p \in Ports |-> Bus(dev)]

\* One call of the sequencer, or constructions of handles.
NextUnknown == (last.n = 0 /\ Next) \/ (pc = "idle" /\ Construct)

SpecUnknown == InitUnknown /\ [][NextUnknown]_vars

-----------------------------------------------------------------------------
(* The remaining methods of the Zup class: output, autostart, foldback,     *)
(* remote mode and service requests, the getters, the status battery,       *)
(* configure and the finalizer.  A state argument is a str as the caller    *)
(* spells it.                                                               *)

\* s.lower().
lower(s) == [i \in 1..Len(s) |-> IF \E j \in 1..26 : UpperChars[j] = s[i]
                                  THEN LowerChars[CHOOSE j \in 1..26 : UpperChars[j] = s[i]] ELSE s[i]]

IsLetter(c) == \E j \in 1..26 : c = LowerChars[j] \/ c = UpperChars[j]

\* A title that leaves the str as it is spelled.
title_AsSpelled(s) == s

\* s.title(): a letter that starts a word in upper case, every other letter in lower case.
title(s) == [i \in 1..Len(s) |-> IF i = 1 \/ ~IsLetter(s[i - 1]) THEN upper(<<s[i]>>)[1] ELSE lower(<<s[i]>>)[1]]

\* The state names of the methods.
State ==
    [ Off |-> <<"O", "f", "f">>,
      On |-> <<"O", "n">>,
      Release |-> <<"R", "e", "l", "e", "a", "s", "e">>,
      Arm |-> <<"A", "r", "m">>,
      Cancel |-> <<"C", "a", "n", "c", "e", "l">>,
      Local |-> <<"L", "o", "c", "a", "l">>,
      Unlatched |-> <<"R", "e", "m", "o", "t", "e", " ", "U", "n", "l", "a", "t", "c", "h", "e", "d">>,
      Latched |-> <<"R", "e", "m", "o", "t", "e", " ", "L", "a", "t", "c", "h", "e", "d">> ]

str(s) == [type |-> "str", val |-> s]

\* Zup._validate_binary_state(state): the exception it raises ("none": none) and the state it returns.
_validate_binary_state(state) ==
    IF state.type # "str" THEN [exc |-> "TypeError", state |-> <<>>]
    ELSE IF title(state.val) \notin {State.Off, State.On} THEN [exc |-> "ValueError", state |-> <<>>]
    ELSE [exc |-> "none", state |-> title(state.val)]

\* The body shared by the binary setters: validate, then write the command of the state.
Binary(z, self, state, off, on) ==
    IF _validate_binary_state(state).exc # "none" THEN raise(z, _validate_binary_state(state).exc)
    ELSE Call(z, self, IF _validate_binary_state(state).state = State.Off THEN off ELSE on)

\* The return of a boolean query once its reply has been read (q): self._read_response() == reply.
Answers(q, reply) == [z |-> q.z, r |-> q.z.exc = "none" /\ q.r = reply]

\* Zup.set_power(self, state).
Zup_set_power(z, self, state) == Binary(z, self, state, Cmd.OUT0, Cmd.OUT1)

\* Zup.power_on(self).
power_on(z, self) == Answers(_read_response(Call(z, self, Cmd.OUTq), self), <<"O", "T", "1">>)

\* Zup.set_autostart(self, state).
set_autostart(z, self, state) == Binary(z, self, state, Cmd.AST0, Cmd.AST1)

\* Zup.autostart_on(self).
autostart_on(z, self) == Answers(_read_response(Call(z, self, Cmd.ASTq), self), <<"A", "S", "1">>)

\* Zup.set_foldback(self, state).
set_foldback(z, self, state) ==
    IF title(state) \notin {State.Release, State.Arm, State.Cancel} THEN raise(z, "ValueError")
    ELSE Call(z, self, CASE title(state) = State.Release -> Cmd.FLD0
                         [] title(state) = State.Arm -> Cmd.FLD1
                         [] OTHER -> Cmd.FLD2)

\* Zup.foldback_on(self).
foldback_on(z, self) == Answers(_read_response(Call(z, self, Cmd.FLDq), self), <<"F", "D", "1">>)

\* Zup.set_remote_mode(self, state) for a state as the caller spells it.
remote_mode(z, self, state) ==
    set_remote_mode(z, self, CASE title(state) = State.Local -> "Local"
                               [] title(state) = State.Unlatched -> "Remote Unlatched"
                               [] title(state) = State.Latched -> "Remote Latched"
                               [] OTHER -> "invalid")

\* Zup.remote_latched(self).
remote_latched(z, self) == Answers(_read_response(Call(z, self, Cmd.RMTq), self), <<"R", "M", "2">>)

\* Zup.set_service_request_over_voltage(self, state).
set_service_request_over_voltage(z, self, state) == Binary(z, self, state, Cmd.SRV0, Cmd.SRV1)

\* Zup.service_request_over_voltage_on(self): the reply is compared with ':QV1;'.
service_request_over_voltage_on(z, self) ==
    Answers(_read_response(Call(z, self, Cmd.SRVq), self), <<":", "Q", "V", "1", ";">>)

\* Zup.set_service_request_over_temperature(self, state).
set_service_request_over_temperature(z, self, state) == Binary(z, self, state, Cmd.SRT0, Cmd.SRT1)

\* Zup.service_request_over_temperature_on(self): the reply is compared with ':QT1;'.
service_request_over_temperature_on(z, self) ==
    Answers(_read_response(Call(z, self, Cmd.SRTq), self), <<":", "Q", "T", "1", ";">>)

\* Zup.set_service_request_foldback(self, state).
set_service_request_foldback(z, self, state) == Binary(z, self, state, Cmd.SRF0, Cmd.SRF1)

\* Zup.service_request_foldback_on(self): the reply is compared with ':QF1;'.
service_request_foldback_on(z, self) ==
    Answers(_read_response(Call(z, self, Cmd.SRFq), self), <<":", "Q", "F", "1", ";">>)

\* Zup.get_voltage_actual(self).
get_voltage_actual(z, self) == Reading(_read_response(Call(z, self, Cmd.VOLq), self), <<"A", "V">>)

\* Zup.get_amperage_actual(self).
get_amperage_actual(z, self) == Reading(_read_response(Call(z, self, Cmd.CURq), self), <<"A", "A">>)

\* Zup.get_amperage_set(self).
get_amperage_set(z, self) == Reading(_read_response(Call(z, self, Cmd.CURx), self), <<"S", "A">>)

\* Zup.clear_registers(self).
clear_registers(z, self) == Call(z, self, Cmd.DCL)

NA == <<"N", "/", "A">>

\* command[4:5] in ('?', '!').
IsQuery(command) == Len(command) >= 5 /\ command[5] \in {"?", "!"}

\* The response paired with a command already written (z): read for a query, 'N/A' otherwise.
Response(z, self, command) ==
    IF IsQuery(command) THEN _read_response(z, self) ELSE [z |-> z, r |-> NA]

\* A loop that reads a response after every command.
RECURSIVE issue_commands_read_responses_ReadAll(_, _, _)
issue_commands_read_responses_ReadAll(q, self, commands) ==
    IF q.z.exc # "none" \/ commands = <<>> THEN q
    ELSE issue_commands_read_responses_ReadAll(
             [z |-> _read_response(Call(q.z, self, Head(commands)), self).z,
              r |-> Append(q.r, <<Head(commands), _read_response(Call(q.z, self, Head(commands)), self).r>>)],
             self, Tail(commands))

\* The loop of issue_commands_read_responses from the pairs q.r on; a pair is appended
\* once its command is written and its response read.
RECURSIVE issue_commands_read_responses(_, _, _)
issue_commands_read_responses(q, self, commands) ==
    IF q.z.exc # "none" \/ commands = <<>> THEN q
    ELSE issue_commands_read_responses(
             [z |-> Response(Call(q.z, self, Head(commands)), self, Head(commands)).z,
              r |-> IF Call(q.z, self, Head(commands)).exc # "none" THEN q.r
                    ELSE Append(q.r, <<Head(commands), Response(Call(q.z, self, Head(commands)), self, Head(commands)).r>>)],
             self, Tail(commands))

\* The tuple of commands of get_statuses.
StatusCommands ==
    << Cmd.MDLq, Cmd.REVq, Cmd.VOLx, Cmd.VOLq, Cmd.UVPq, Cmd.OVPq, Cmd.CURx, Cmd.CURq, Cmd.FLDq, Cmd.RMTq,
       Cmd.ASTq, Cmd.STAq, Cmd.STPq, Cmd.ALMq, Cmd.SRVq, Cmd.SRTq, Cmd.SRFq >>

\* Zup.get_statuses(self).
get_statuses(z, self) == issue_commands_read_responses([z |-> z, r |-> <<>>], self, StatusCommands)

real(x) == [type |-> "float", val |-> x]

\* Zup.configure(self): its twelve calls in order, each on the class as the one before left it.
configure(z, self) ==
    remote_mode(
      set_amperage(
        set_voltage(
          set_over_voltage_protection(
            set_under_voltage_protection(
              set_service_request_foldback(
                set_service_request_over_temperature(
                  set_service_request_over_voltage(
                    set_foldback(
                      set_autostart(
                        Zup_set_power(clear_registers(z, self), self, str(<<"O", "f", "f">>)),
                        self, str(<<"O", "f", "f">>)),
                      self, <<"C", "a", "n", "c", "e", "l">>),
                    self, str(<<"O", "f", "f">>)),
                  self, str(<<"O", "f", "f">>)),
                self, str(<<"O", "f", "f">>)),
              self, real(self.UVP.min)),
            self, real(self.OVP.MAX)),
          self, [type |-> "int", val |-> 0]),
        self, [type |-> "int", val |-> 0]),
      self, <<"R", "e", "m", "o", "t", "e", " ", "l", "a", "t", "c", "h", "e", "d">>)

\* self.serial_port.open() and close().
serial_open(z, port) == IF z.exc # "none" THEN z ELSE [z EXCEPT !.open[port] = TRUE]

serial_close(z, port) == IF z.exc # "none" THEN z ELSE [z EXCEPT !.open[port] = FALSE]

\* Zup.__del__(self).
__del__(z, self) ==
    remote_mode(IF ~z.open[self.port] THEN serial_open(z, self.port) ELSE z, self, State.Unlatched)

-----------------------------------------------------------------------------
(* A client of the class on one port whose writes succeed: it constructs    *)
(* handles, sets and queries states through them, reads the statuses,       *)
(* closes the port and finalizes handles.                                   *)

\* Most calls of a method in a behaviour of the client.
MaxSteps == 2

\* A state name as callers spell it: as documented, in lower case, in upper case.
Spellings(s) == {s, lower(s), upper(s)}

\* The arguments of the binary setters: the two states, a str that names none, an int.
BinaryArgs ==
    { str(s) : s \in Spellings(State.Off) \cup Spellings(State.On) \cup {<<"M", "a", "y", "b", "e">>} }
    \cup { [type |-> "int", val |-> <<>>] }

FoldbackArgs == Spellings(State.Arm) \cup Spellings(State.Cancel) \cup {State.Release, <<"M", "a", "y", "b", "e">>}

RemoteArgs == Spellings(State.Latched) \cup Spellings(State.Unlatched) \cup {State.Local, <<"M", "a", "y", "b", "e">>}

\* The tuples issue_commands_read_responses is called with.
CommandTuples == { <<>>, <<Cmd.DCL, Cmd.VOLx, Cmd.VOLq>>, <<Cmd.OUTq, Cmd.OUT1, Cmd.OUTq, Cmd.RMT1>> }

\* The record of a call of method on self with arg that left the class as q.z and returned q.r:
\* as Did, with the return value and whether the port was open before the call.
Returned(method, self, arg, q) ==
    last' = [n |-> last.n + 1, method |-> method, self |-> self, arg |-> arg, exc |-> q.z.exc,
             sent |-> SubSeq(q.z.zwire[self.port], Len(zwire[self.port]) + 1, Len(q.z.zwire[self.port])),
             la |-> listening_addresses, bus |-> zbus[self.port], open |-> zopen[self.port], ret |-> q.r]

\* A method that returns None.
None(z) == [z |-> z, r |-> "None"]

\* The step of the client that calls a method: the class and the record of the call afterwards.
Step(method, self, arg, q) ==
    /\ last.n < MaxSteps
    /\ ZCommit(q.z)
    /\ Returned(method, self, arg, q)
    /\ UNCHANGED handles

\* Zup(address, serial_port), once for an address; constructions are not counted among
\* the client's calls.
Make ==
    /\ last.n < MaxSteps
    /\ \E address \in ZupAddresses :
        LET r == __init__(ZWorld(-1), [type |-> "int", val |-> address], [port |-> "COM1", baudrate |-> 9600])
        IN  /\ \A i \in 1..Len(issued["COM1"]) : issued["COM1"][i].address # address
            /\ ZCommit(r.z)
            /\ handles' = Produced(r)
            /\ last' = [n |-> last.n, method |-> "__init__", self |-> r.self, arg |-> address, exc |-> r.z.exc]

\* self.set_power(state).
SetOutput ==
    \E self \in handles, state \in BinaryArgs : Step("set_power", self, state, None(Zup_set_power(ZWorld(-1), self, state)))

\* self.power_on().
PowerOn == \E self \in handles : Step("power_on", self, <<>>, power_on(ZWorld(-1), self))

\* self.set_autostart(state).
SetAutostart ==
    \E self \in handles, state \in BinaryArgs : Step("set_autostart", self, state, None(set_autostart(ZWorld(-1), self, state)))

\* self.autostart_on().
AutostartOn == \E self \in handles : Step("autostart_on", self, <<>>, autostart_on(ZWorld(-1), self))

\* self.set_foldback(state).
SetFoldback ==
    \E self \in handles, state \in FoldbackArgs :
        Step("set_foldback", self, str(state), None(set_foldback(ZWorld(-1), self, state)))

\* self.foldback_on().
FoldbackOn == \E self \in handles : Step("foldback_on", self, <<>>, foldback_on(ZWorld(-1), self))

\* self.set_remote_mode(state).
SetRemoteMode ==
    \E self \in handles, state \in RemoteArgs :
        Step("set_remote_mode", self, str(state), None(remote_mode(ZWorld(-1), self, state)))

\* self.remote_latched().
RemoteLatched == \E self \in handles : Step("remote_latched", self, <<>>, remote_latched(ZWorld(-1), self))

\* self.set_service_request_over_voltage(state).
SetServiceRequestOverVoltage ==
    \E self \in handles, state \in BinaryArgs :
        Step("set_service_request_over_voltage", self, state, None(set_service_request_over_voltage(ZWorld(-1), self, state)))

\* self.service_request_over_voltage_on().
ServiceRequestOverVoltageOn ==
    \E self \in handles :
        Step("service_request_over_voltage_on", self, <<>>, service_request_over_voltage_on(ZWorld(-1), self))

\* self.set_service_request_over_temperature(state).
SetServiceRequestOverTemperature ==
    \E self \in handles, state \in BinaryArgs :
        Step("set_service_request_over_temperature", self, state,
             None(set_service_request_over_temperature(ZWorld(-1), self, state)))

\* self.service_request_over_temperature_on().
ServiceRequestOverTemperatureOn ==
    \E self \in handles :
        Step("service_request_over_temperature_on", self, <<>>, service_request_over_temperature_on(ZWorld(-1), self))

\* self.set_service_request_foldback(state).
SetServiceRequestFoldback ==
    \E self \in handles, state \in BinaryArgs :
        Step("set_service_request_foldback", self, state, None(set_service_request_foldback(ZWorld(-1), self, state)))

\* self.service_request_foldback_on().
ServiceRequestFoldbackOn ==
    \E self \in handles :
        Step("service_request_foldback_on", self, <<>>, service_request_foldback_on(ZWorld(-1), self))

\* self.issue_commands_read_responses(commands).
IssueCommands ==
    \E self \in handles, commands \in CommandTuples :
        Step("issue_commands_read_responses", self, commands,
             issue_commands_read_responses([z |-> ZWorld(-1), r |-> <<>>], self, commands))

\* self.get_statuses().
GetStatuses == \E self \in handles : Step("get_statuses", self, <<>>, get_statuses(ZWorld(-1), self))

\* serial_port.close() by the client, as at the end of zup_example_usage.py.
ClosePort ==
    /\ zopen["COM1"]
    /\ ZCommit(serial_close(ZWorld(-1), "COM1"))
    /\ UNCHANGED <<handles, last>>

\* self.__del__().
Finalize == \E self \in handles : Step("__del__", self, <<>>, None(__del__(ZWorld(-1), self)))

NextQuery ==
    \/ Make \/ SetOutput \/ PowerOn \/ SetAutostart \/ AutostartOn \/ SetFoldback \/ FoldbackOn
    \/ SetRemoteMode \/ RemoteLatched
    \/ SetServiceRequestOverVoltage \/ ServiceRequestOverVoltageOn
    \/ SetServiceRequestOverTemperature \/ ServiceRequestOverTemperatureOn
    \/ SetServiceRequestFoldback \/ ServiceRequestFoldbackOn
    \/ IssueCommands \/ GetStatuses \/ ClosePort \/ Finalize

SpecQuery == InitZup /\ [][NextQuery]_vars

-----------------------------------------------------------------------------
(* The queries before a bus that misbehaves: after a handle is made, a line *)
(* that is not the reply to the next query may sit in the input buffer (a   *)
(* reply that arrived after its read had timed out, or one damaged on the   *)
(* wire), and the addressed supply may stop listening (switched off and on  *)
(* again), so that the next read times out.                                 *)

\* The lines that may sit in the input buffer: a reading under each prefix, a reading
\* without prefix, one with the prefix inside, the reply to another kind of query, an empty line.
LateLines ==
    { p \o <<"0", "5", ".", "0", "0">> : p \in {<<"A", "V">>, <<"S", "V">>, <<"A", "A">>, <<"S", "A">>, <<"U", "P">>, <<"O", "P">>} }
    \cup { <<"0", "5", ".", "0", "0">>, <<"0", "5", "A", "V", ".", "0", "0">>, <<"O", "T", "1">>, <<>> }

\* A line arrives that no query of the class is waiting for.
LateLine ==
    /\ handles # {} /\ zbus["COM1"].rx = <<>>
    /\ \E line \in LateLines : zbus' = [zbus EXCEPT !["COM1"].rx = <<line \o CRLF>>]
    /\ UNCHANGED <<seqVars, listening_addresses, handles, zwire, issued, zgaps, zidle, zopen, threads, last>>

\* The addressed supply stops listening.
Silence ==
    /\ handles # {} /\ zbus["COM1"].listen # 0
    /\ zbus' = [zbus EXCEPT !["COM1"].listen = 0]
    /\ UNCHANGED <<seqVars, listening_addresses, handles, zwire, issued, zgaps, zidle, zopen, threads, last>>

\* self.get_voltage_actual().
GetVoltageActual == \E self \in handles : Step("get_voltage_actual", self, <<>>, get_voltage_actual(ZWorld(-1), self))

\* self.get_voltage_set().
GetVoltageSet == \E self \in handles : Step("get_voltage_set", self, <<>>, get_voltage_set(ZWorld(-1), self))

\* self.get_amperage_actual().
GetAmperageActual == \E self \in handles : Step("get_amperage_actual", self, <<>>, get_amperage_actual(ZWorld(-1), self))

\* self.get_amperage_set().
GetAmperageSet == \E self \in handles : Step("get_amperage_set", self, <<>>, get_amperage_set(ZWorld(-1), self))

\* self.get_under_voltage_protection().
GetUnderVoltageProtection ==
    \E self \in handles : Step("get_under_voltage_protection", self, <<>>, get_under_voltage_protection(ZWorld(-1), self))

\* self.get_over_voltage_protection().
GetOverVoltageProtection ==
    \E self \in handles : Step("get_over_voltage_protection", self, <<>>, get_over_voltage_protection(ZWorld(-1), self))

NextDecode ==
    \/ Make \/ LateLine \/ Silence
    \/ GetVoltageActual \/ GetVoltageSet \/ GetAmperageActual \/ GetAmperageSet
    \/ GetUnderVoltageProtection \/ GetOverVoltageProtection
    \/ PowerOn \/ AutostartOn \/ FoldbackOn \/ RemoteLatched
    \/ ServiceRequestOverVoltageOn \/ ServiceRequestOverTemperatureOn \/ ServiceRequestFoldbackOn

SpecDecode == InitZup /\ [][NextDecode]_vars

-----------------------------------------------------------------------------
(* configure() on supplies of every model, in the states a supply may be    *)
(* found in.                                                                *)

\* The registers of a supply of model mdl programmed to the top of its ranges, the limits wide open.
FullScale(mdl) ==
    [DevState(VOLs[ZUPxy(ModelV(mdl))].MAX, CURs[ZUPva(ModelV(mdl), ModelA(mdl))].MAX, 1)
        EXCEPT !.uvp = UVPs[ZUPxy(ModelV(mdl))].min, !.ovp = OVPs[ZUPxy(ModelV(mdl))].MAX]

ConfigureSupplies ==
    InitialSupplies \cup { Supply(Installed(mdl), FullScale(mdl)) : mdl \in {m \in Models : Listed(m)} }

\* self.configure().
Configure == \E self \in handles : Step("configure", self, <<>>, None(configure(ZWorld(-1), self)))

InitConfigure ==
    /\ listen = 1 /\ dev = [a \in Devices |-> Supply(Catalog(a), DevState(0, Unit \div 2, 0))]
    /\ InitSequencer
    /\ InitClass
    /\ last = NoCall
    /\ \E s \in ConfigureSupplies : zbus = [p \in Ports |-> Bus([a \in Devices |-> s])]

NextConfigure == Make \/ Configure

SpecConfigure == InitConfigure /\ [][NextConfigure]_vars

-----------------------------------------------------------------------------
(* Two threads of one client, each with its own handle on the same port.    *)
(* _write_command takes no lock, so the threads may be switched between any *)
(* two of its statements: the test of the map, the update of the map, the   *)
(* write of ADR and the write of the command are steps of their own.        *)

\* Most calls of _write_command by a thread.
MaxThreadCalls == 2

Threads == {1, 2}

\* The commands the threads issue.
ThreadCommands == {Cmd.OUT0, Cmd.OUT1}

\* The state after a step of a thread: the class as z, the threads as th.
TCommit(z, th) ==
    /\ listening_addresses' = z.la /\ zwire' = z.zwire /\ zbus' = z.bus
    /\ zgaps' = z.gaps /\ zidle' = z.idle /\ zopen' = z.open
    /\ threads' = th
    /\ UNCHANGED <<seqVars, handles, issued, last>>

\* threading.Thread(...).start() twice: thread t is given the handle for address t.
Spawn ==
    /\ threads = <<>>
    /\ \A t \in Threads : \E h \in handles : h.address = t
    /\ TCommit(ZWorld(-1), [t \in Threads |-> [pc |-> "idle", self |-> CHOOSE h \in handles : h.address = t,
                                                 command |-> <<>>, calls |-> 0, received |-> <<>>]])

\* Thread t enters self._write_command(command).
Enter(t) ==
    /\ threads # <<>> /\ threads[t].pc = "idle" /\ threads[t].calls < MaxThreadCalls
    /\ \E command \in ThreadCommands :
        TCommit(ZWorld(-1), [threads EXCEPT ![t].pc = "test", ![t].command = command, ![t].calls = @ + 1])

\* The if of _write_command: the map is read.
Test(t) ==
    /\ threads # <<>> /\ threads[t].pc = "test"
    /\ TCommit(ZWorld(-1), [threads EXCEPT ![t].pc = IF MustAddress(listening_addresses, threads[t].self)
                                                     THEN "update" ELSE "write"])

\* Zup.listening_addresses.update(...) and the sleep before ADR.
Update(t) ==
    /\ threads # <<>> /\ threads[t].pc = "update"
    /\ TCommit(zsleep([ZWorld(-1) EXCEPT !.la = update(@, threads[t].self.port, threads[t].self.address)], 15),
               [threads EXCEPT ![t].pc = "address"])

\* The write of ADR and the sleep after it.
WriteADR(t) ==
    /\ threads # <<>> /\ threads[t].pc = "address"
    /\ TCommit(zsleep(serial_write(ZWorld(-1), threads[t].self.port, ZupADR(threads[t].self.address)), 35),
               [threads EXCEPT ![t].pc = "write"])

\* The write of the command and the sleep after it; the thread notes which supply was
\* listening when the command went out.
WriteCommand(t) ==
    /\ threads # <<>> /\ threads[t].pc = "write"
    /\ TCommit(zsleep(serial_write(ZWorld(-1), threads[t].self.port, threads[t].command), 20),
               [threads EXCEPT ![t].pc = "idle",
                               ![t].received = Append(@, [command |-> threads[t].command,
                                                          by |-> zbus[threads[t].self.port].listen])])

NextThreads ==
    \/ Make \/ Spawn
    \/ \E t \in Threads : Enter(t) \/ Test(t) \/ Update(t) \/ WriteADR(t) \/ WriteCommand(t)

SpecThreads == InitZup /\ [][NextThreads]_vars

-----------------------------------------------------------------------------
(* Vocabulary of the properties *)

Max(S) == CHOOSE x \in S : \A y \in S : y <= x

Range(seq) == { seq[i] : i \in 1..Len(seq) }

CallON == call = "ZUps_ON"

CallOff == call = "ZUps_off"

\* The address an ADR command names.
Named(cmd) == NatOf(Argument(cmd))

\* The supply the command at position i of the wire goes to: the one named by the last
\* ADR command before it (0: none was named).
Target(i) ==
    LET S == { j \in 1..(i - 1) : IsADR(wire[j]) }
    IN  IF S = {} THEN 0 ELSE Named(wire[Max(S)])

\* Rated voltage and current of the supply at address a, from its model string.
RatedV(a) == float(SubSeq(Catalog(a).mdl, 1, index(Catalog(a).mdl, "V") - 1))

RatedA(a) == float(SubSeq(Catalog(a).mdl, index(Catalog(a).mdl, "-") + 1, index(Catalog(a).mdl, "A") - 1))

BadAddress(z) == z.Address \notin 1..31

BadFoldback(z) == upper(z.Foldback) \notin {sFLD_ON, sFLD_OFF}

\* A target voltage outside [0, rated], or a negative target current.
BadVoltage(z) == z.Address \in Devices /\ (z.Voltage < 0 \/ z.Voltage > RatedV(z.Address))

NegativeAmperage(z) == z.Address \in Devices /\ z.Amperage < 0

\* A target current above 105 % of the rated current.
OverAmperage(z) == z.Address \in Devices /\ z.Amperage * 100 > RatedA(z.Address) * 105

\* The entries of the plan with each kind of violation.
BadAddresses == { k \in 1..Len(ZUps) : BadAddress(ZUps[k]) }

BadFoldbacks == { k \in 1..Len(ZUps) : BadFoldback(ZUps[k]) }

BadVoltages == { k \in 1..Len(ZUps) : BadVoltage(ZUps[k]) }

NegativeAmperages == { k \in 1..Len(ZUps) : NegativeAmperage(ZUps[k]) }

DistinctAddresses == \A k, l \in 1..Len(Addresses) : k # l => Addresses[k] # Addresses[l]

\* The addresses the raised error names.
FailedAddresses == { Failures[i].at : i \in 1..Len(Failures) }

Reported(kind, at) == \E i \in 1..Len(Failures) : Failures[i] = Failure(kind, at)

\* The commands of _ZUps_CleanUp.
CleanUpCommands == {Cmd.RMT1, Cmd.DCL, Cmd.FLD2, Cmd.AST0}

\* A command that sets a protection limit / a set-point or the output.
IsLimit(cmd) == IsSet(cmd, Cmd.UVP) \/ IsSet(cmd, Cmd.OVP)

IsSetPoint(cmd) == IsSet(cmd, Cmd.VOL) \/ IsSet(cmd, Cmd.CUR) \/ cmd = Cmd.OUT1

\* The phase of the command at position i: 1 for a protection limit sent to a supply that has
\* not yet been sent OUT1 (UVP-minimum, OVP-maximum), 2 for VOL, CUR and OUT1, 3 for a
\* protection limit sent to a supply after its OUT1 (the final UVP, OVP), 0 for anything else.
Phase(i) ==
    IF IsSetPoint(wire[i]) THEN 2
    ELSE IF ~IsLimit(wire[i]) THEN 0
    ELSE IF \E j \in 1..(i - 1) : wire[j] = Cmd.OUT1 /\ Target(j) = Target(i) THEN 3
    ELSE 1

\* The positions of the wire that hold a command of phase 1, 2 or 3.
Phased == { i \in 1..Len(wire) : Phase(i) > 0 }

\* The place of address a in the plan.
PlanIndex(a) == CHOOSE k \in 1..Len(Addresses) : Addresses[k] = a

\* The concatenation of what the logged calls transmitted.
RECURSIVE Transmitted(_)
Transmitted(log) ==
    IF log = <<>> THEN <<>> ELSE Transmitted(SubSeq(log, 1, Len(log) - 1)) \o log[Len(log)].sent

-----------------------------------------------------------------------------
(* C1 *)

\* C1: on every port, a call of _write_command that returns transmitted the command alone
\* when the previous call on that port came from a handle with the same address, and
\* ':ADRaa;' immediately followed by the command when the previous call came from a handle
\* with another address or there was none; the wire holds nothing but what the calls sent.
C1_ADROnlyOnChange ==
    \A p \in Ports :
        /\ zwire[p] = Transmitted(issued[p])
        /\ \A k \in 1..Len(issued[p]) :
            LET c == issued[p][k]
            IN  c.ok => c.sent = IF k > 1 /\ issued[p][k - 1].address = c.address
                                 THEN <<c.command>>
                                 ELSE <<ZupADR(c.address), c.command>>

\* Three calls in a row on one port that returned: the second from the same address as the
\* first (no ADR), the third from another address (ADR sent again).
C1_Witness ==
    \E p \in Ports, k \in 2..MaxCalls :
        /\ k + 1 <= Len(issued[p])
        /\ issued[p][k - 1].ok /\ issued[p][k].ok /\ issued[p][k + 1].ok
        /\ issued[p][k].address = issued[p][k - 1].address /\ issued[p][k].sent = <<issued[p][k].command>>
        /\ issued[p][k + 1].address # issued[p][k].address /\ Len(issued[p][k + 1].sent) = 2

-----------------------------------------------------------------------------
(* C2 *)

\* C2 as stated: once ZUps_ON has returned for a plan of two or more supplies, every
\* UVP-minimum / OVP-maximum command on the wire precedes every VOL, CUR and OUT1 command,
\* and every OUT1 command precedes every final UVP / OVP command.
C2_PhaseByPhase ==
    (CallON /\ pc = "returned" /\ Len(ZUps) >= 2 /\ DistinctAddresses) =>
        \A i, j \in Phased :
            /\ (Phase(i) = 1 /\ Phase(j) = 2) => i < j
            /\ (wire[i] = Cmd.OUT1 /\ Phase(j) = 3) => i < j

\* C2 amended: ZUps_ON configures and energizes the supplies of the plan one after the other.
\* For a plan of distinct addresses, every limit, set-point and OUT1 command goes to a supply
\* of the plan; the commands of one supply run through the phases in order (UVP-minimum and
\* OVP-maximum, then VOL, CUR and OUT1, then the final OVP and UVP); all commands of a supply
\* precede all commands of the supplies later in the plan; and when the configuration is
\* complete every supply has been sent each of the three phases.
C2_SupplyBySupply ==
    (CallON /\ DistinctAddresses) =>
        /\ \A i \in Phased : Target(i) \in Range(Addresses)
        /\ \A i, j \in Phased :
            i < j => IF Target(i) = Target(j) THEN Phase(i) <= Phase(j)
                     ELSE PlanIndex(Target(i)) < PlanIndex(Target(j))
        /\ pc \in {"_ZUps_VerifyActualVAs", "close", "returned"} =>
            \A k \in 1..Len(Addresses), ph \in 1..3 :
                \E i \in Phased : Target(i) = Addresses[k] /\ Phase(i) = ph

\* ZUps_ON has returned for a plan of two supplies: the final limits of the first were sent
\* before the UVP-minimum of the second.
C2_Witness ==
    /\ CallON /\ pc = "returned" /\ Len(ZUps) = 2 /\ DistinctAddresses
    /\ \E i, j \in Phased :
        i < j /\ Phase(i) = 3 /\ Target(i) = Addresses[1] /\ Phase(j) = 1 /\ Target(j) = Addresses[2]

-----------------------------------------------------------------------------
(* C3 *)

\* C3: throughout ZUps_ON and ZUps_off, hence when they return or raise, every supply whose
\* address is not in the plan or address list has the set voltage, set current and output
\* state it had before the call.
C3_OthersUntouched ==
    \A a \in Devices \ Range(Addresses) :
        dev[a].vol = dev0[a].vol /\ dev[a].cur = dev0[a].cur /\ dev[a].out = dev0[a].out

\* ZUps_off has returned having turned supply 1 off, while supply 2, not listed, is still on.
C3_Witness ==
    /\ CallOff /\ pc = "returned" /\ Addresses = <<1>>
    /\ dev0[1].out = 1 /\ dev[1].out = 0 /\ dev0[2].out = 1 /\ dev[2].out = 1

-----------------------------------------------------------------------------
(* C4 *)

\* C4 as stated: ZUps_ON called with an invalid entry (an address outside 1..31, an unknown
\* foldback, a voltage outside [0, rated] or a negative current) never opens the serial port
\* and writes nothing.
C4_NoTransport ==
    (CallON /\ (BadAddresses # {} \/ BadFoldbacks # {} \/ BadVoltages # {} \/ NegativeAmperages # {})) =>
        opens = 0 /\ wire = <<>> /\ pc # "returned"

\* ':ADRaa;', ':MDL?;' for every entry of the plan: what _ZUps_VerifySetVAs writes.
ModelQueries == [i \in 1..(2 * Len(ZUps)) |-> IF i % 2 = 1 THEN ADR(ZUps[(i + 1) \div 2].Address) ELSE Cmd.MDLq]

\* C4 amended: with an address outside 1..31 or an unknown foldback in the plan, ZUps_ON
\* raises ValueError without opening the port or writing a byte.  With valid addresses and
\* foldbacks but a voltage outside [0, rated] or a negative current, ZUps_ON opens the port
\* (when the baud rate is valid) and writes nothing but ':ADRaa;' and ':MDL?;' commands; it
\* never configures a supply and never returns, and when it raises ValueError with the port
\* having been opened it has queried the model of every entry and closed the port.
C4_QueriesOnly ==
    CallON =>
        /\ (BadAddresses # {} \/ BadFoldbacks # {}) =>
            /\ opens = 0 /\ wire = <<>> /\ ~is_open
            /\ pc \in {"_ZUps_VerifyAddresses", "_ZUps_VerifyFoldbacks", "raised"}
            /\ pc = "raised" => exc = "ValueError"
        /\ (BadAddresses = {} /\ BadFoldbacks = {} /\ (BadVoltages # {} \/ NegativeAmperages # {})) =>
            /\ \A i \in 1..Len(wire) : IsADR(wire[i]) \/ wire[i] = Cmd.MDLq
            /\ pc \notin {"_ZUps_PowerVAs", "_ZUps_VerifyActualVAs", "close", "returned"}
            /\ (pc = "raised" /\ exc = "ValueError" /\ opens = 1) => (wire = ModelQueries /\ ~is_open)

\* ZUps_ON has raised ValueError for a negative current after opening the port and
\* querying the models of two supplies.
C4_Witness ==
    /\ CallON /\ pc = "raised" /\ exc = "ValueError" /\ opens = 1 /\ Len(wire) = 4
    /\ NegativeAmperages # {} /\ BadVoltages = {}

-----------------------------------------------------------------------------
(* C5 *)

\* C5 as stated: the ValueError ZUps_ON raises (the baud rate being valid) reports every
\* violation of the plan: a line for an address outside 1..31, and a line naming the address
\* of every entry with an unknown foldback, a voltage outside [0, rated] or a negative current.
C5_EveryViolation ==
    (CallON /\ pc = "raised" /\ exc = "ValueError" /\ _ZUps_VerifyBaud(Baud)) =>
        \A k \in 1..Len(ZUps) :
            /\ BadAddress(ZUps[k]) => \E i \in 1..Len(Failures) : Failures[i].kind = "Address"
            /\ BadFoldback(ZUps[k]) => Reported("Foldback", ZUps[k].Address)
            /\ BadVoltage(ZUps[k]) => Reported("Voltage", ZUps[k].Address)
            /\ NegativeAmperage(ZUps[k]) => Reported("Amperage", ZUps[k].Address)

\* C5 amended: the ValueError ZUps_ON raises reports every violation found by the first check
\* that fails, and nothing else: one line per address outside 1..31; or else one line per
\* unknown foldback, naming its address; or else the invalid baud rate; or else, per entry, a
\* line for a voltage outside [0, rated] and a line for a negative current, naming its address.
C5_FirstFailingCheck ==
    (CallON /\ pc = "raised" /\ exc = "ValueError") =>
        IF BadAddresses # {} THEN
            /\ Len(Failures) = Cardinality(BadAddresses)
            /\ \A i \in 1..Len(Failures) : Failures[i].kind = "Address"
        ELSE IF BadFoldbacks # {} THEN
            /\ Len(Failures) = Cardinality(BadFoldbacks)
            /\ \A i \in 1..Len(Failures) : Failures[i].kind = "Foldback"
            /\ \A k \in 1..Len(ZUps) : BadFoldback(ZUps[k]) => Reported("Foldback", ZUps[k].Address)
        ELSE IF ~_ZUps_VerifyBaud(Baud) THEN
            Failures = <<Failure("Baud", -1)>>
        ELSE
            /\ \A i \in 1..Len(Failures) : Failures[i].kind \in {"Voltage", "Amperage"}
            /\ \A i \in 1..Len(Failures) :
                Failures[i].kind = "Voltage" => \E k \in 1..Len(ZUps) : ZUps[k].Address = Failures[i].at /\ BadVoltage(ZUps[k])
            /\ \A k \in 1..Len(ZUps) :
                /\ BadVoltage(ZUps[k]) => Reported("Voltage", ZUps[k].Address)
                /\ NegativeAmperage(ZUps[k]) => Reported("Amperage", ZUps[k].Address)

\* ZUps_ON has raised ValueError for a plan with an unknown foldback and a negative
\* current: the error reports the foldback and not the current.
C5_Witness ==
    /\ CallON /\ pc = "raised" /\ exc = "ValueError"
    /\ Cardinality(BadFoldbacks) = 1 /\ Len(Failures) = 1 /\ Failures[1].kind = "Foldback"
    /\ NegativeAmperages # {}

-----------------------------------------------------------------------------
(* C6 *)

\* C6: ZUps_ON is past validation (configuring, verifying or done) only if every entry of
\* the plan has 0 <= voltage <= rated voltage and 0 <= current <= 1.05 x rated current of the
\* supply at its address.
C6_WithinEnvelope ==
    (CallON /\ pc \in {"_ZUps_PowerVAs", "_ZUps_VerifyActualVAs", "close", "returned"}) =>
        \A k \in 1..Len(ZUps) :
            ~BadVoltage(ZUps[k]) /\ ~NegativeAmperage(ZUps[k]) /\ ~OverAmperage(ZUps[k])

-----------------------------------------------------------------------------
(* C7 *)

\* C7: ZUps_ON returns only if, for every entry of the plan, the voltage the supply measures
\* lies within 0.9 .. 1.1 x the target voltage and the current it measures within
\* 0 .. 1.05 x the target current.
C7_WithinTolerance ==
    (CallON /\ pc = "returned") =>
        \A k \in 1..Len(ZUps) :
            LET d == dev[ZUps[k].Address]
            IN  /\ ZUps[k].Voltage * 90 <= d.av * 100 /\ d.av * 100 <= ZUps[k].Voltage * 110
                /\ 0 <= d.aa /\ d.aa * 100 <= ZUps[k].Amperage * 105

-----------------------------------------------------------------------------
(* C8 *)

\* C8: ZUps_ON never writes OUT0, and when its verification of the actual voltages and
\* currents raises RuntimeError the output of every supply of the plan is on.
C8_LeftEnergized ==
    CallON =>
        /\ \A i \in 1..Len(wire) : wire[i] # Cmd.OUT0
        /\ (pc = "raised" /\ exc = "RuntimeError") => \A k \in 1..Len(ZUps) : dev[ZUps[k].Address].out = 1

\* ZUps_ON has raised RuntimeError from its verification, leaving on a supply that was off
\* before the call.
C8_Witness ==
    /\ CallON /\ pc = "raised" /\ exc = "RuntimeError" /\ Failures # <<>>
    /\ dev0[ZUps[1].Address].out = 0 /\ dev[ZUps[1].Address].out = 1

-----------------------------------------------------------------------------
(* C9 *)

\* C9 as stated: when ZUps_off raises RuntimeError from its verification, every listed supply
\* the error does not name has been sent each of the cleanup commands RMT1, DCL, FLD2, AST0.
C9_CleanUpOfPassed ==
    (CallOff /\ pc = "raised" /\ exc = "RuntimeError") =>
        \A a \in Range(Addresses) \ FailedAddresses, c \in CleanUpCommands :
            \E i \in 1..Len(wire) : wire[i] = c /\ Target(i) = a

\* C9 amended: in ZUps_off, once the verification has found a supply still on, no cleanup
\* command is written to any supply; the RuntimeError is raised with the port closed.
C9_NoCleanUpAfterFailure ==
    CallOff =>
        /\ Failures # <<>> => \A i \in 1..Len(wire) : wire[i] \notin CleanUpCommands
        /\ (pc = "raised" /\ exc = "RuntimeError") => (Failures # <<>> /\ ~is_open)
        /\ pc \in {"_ZUps_CleanUp", "close", "returned"} => Failures = <<>>

\* ZUps_off has raised RuntimeError for two listed supplies, one named by the error and one
\* that passed the verification.
C9_Witness ==
    /\ CallOff /\ pc = "raised" /\ exc = "RuntimeError"
    /\ Len(Addresses) = 2 /\ DistinctAddresses /\ Cardinality(FailedAddresses) = 1

-----------------------------------------------------------------------------
(* C10 *)

\* The verification of ZUps_off has read every status: it raised RuntimeError, or the call
\* went on to the cleanup.
StatusesRead == (pc = "raised" /\ exc = "RuntimeError") \/ pc \in {"_ZUps_CleanUp", "close", "returned"}

\* C10: in ZUps_off no OUT0 follows a STA? and every listed address has been sent OUT0 before
\* the first STA?; when the verification has decided, every listed address has been sent
\* STA? and the error names exactly the listed addresses whose output is on (power bit '1');
\* no cleanup command precedes a STA?.
C10_OffThenVerifyThenCleanUp ==
    CallOff =>
        /\ \A i, j \in 1..Len(wire) : (wire[i] = Cmd.STAq /\ wire[j] = Cmd.OUT0) => j < i
        /\ (\E i \in 1..Len(wire) : wire[i] = Cmd.STAq) =>
            \A a \in Range(Addresses) : \E j \in 1..Len(wire) : wire[j] = Cmd.OUT0 /\ Target(j) = a
        /\ StatusesRead =>
            /\ \A a \in Range(Addresses) : \E i \in 1..Len(wire) : wire[i] = Cmd.STAq /\ Target(i) = a
            /\ FailedAddresses = { a \in Range(Addresses) : dev[a].out = 1 }
        /\ \A i, j \in 1..Len(wire) : (wire[i] \in CleanUpCommands /\ wire[j] = Cmd.STAq) => j < i

\* ZUps_off has returned for two supplies that were on: both were turned off, verified and
\* cleaned up.
C10_Witness ==
    /\ CallOff /\ pc = "returned" /\ Len(Addresses) = 2 /\ DistinctAddresses
    /\ \A a \in Range(Addresses) : dev0[a].out = 1 /\ dev[a].out = 0
    /\ \E i \in 1..Len(wire) : wire[i] = Cmd.RMT1

-----------------------------------------------------------------------------
(* Vocabulary of the properties of the Zup class: the last call *)

\* The last call was of method, made with a number.
Numeric(method) == last.method = method /\ IsReal(last.arg)

\* The supply the last call was made on, as it was before the call and as it is now.
Subject == last.bus.dev[last.self.address]

SubjectNow == zbus[last.self.port].dev[last.self.address]

\* Rated voltage of that supply, from its model string, in units of 10^-4 V.
SubjectRatedV == NatOf(ModelV(Subject.cat.mdl)) * Unit

\* The last call raised ValueError and transmitted nothing.
RefusedUnsent == last.exc = "ValueError" /\ last.sent = <<>>

\* The argument of the last call is outside the window [UVP / 0.95, OVP / 1.05] of the
\* subject's limits before the call.
OutsideWindow == last.arg.val * 95 < Subject.uvp * 100 \/ last.arg.val * 105 > Subject.ovp * 100

-----------------------------------------------------------------------------
(* C11 *)

\* C11 as stated: set_voltage(v) raises ValueError for every v above the rated voltage and
\* for every v outside the window [UVP / 0.95, OVP / 1.05] of the supply's present limits,
\* and in both cases the call has transmitted nothing.
C11_NothingWritten ==
    (Numeric("set_voltage") /\ (last.arg.val > SubjectRatedV \/ OutsideWindow)) => RefusedUnsent

\* C11: set_voltage(v) raises ValueError and transmits nothing for every v above 105 % of
\* the rated voltage; for every v up to there and outside the window [UVP / 0.95, OVP / 1.05]
\* of the supply's present limits it raises ValueError after transmitting nothing but the
\* addressing command and the queries UVP? and OVP? that read the window, and the supply's
\* registers are as before.
C11_QueriesOnlyForWindow ==
    Numeric("set_voltage") =>
        /\ (last.arg.val * 100 > SubjectRatedV * 105) => RefusedUnsent
        /\ (0 <= last.arg.val /\ last.arg.val * 100 <= SubjectRatedV * 105 /\ OutsideWindow) =>
            /\ last.exc = "ValueError"
            /\ Range(last.sent) \subseteq {ZupADR(last.self.address), Cmd.UVPq, Cmd.OVPq}
            /\ SubjectNow = Subject

\* set_voltage was called with a voltage of the model's range above the window: it raised
\* after reading both limits.
C11_Witness ==
    /\ Numeric("set_voltage")
    /\ 0 <= last.arg.val /\ last.arg.val * 100 <= SubjectRatedV * 105
    /\ last.arg.val * 105 > Subject.ovp * 100
    /\ last.exc = "ValueError"
    /\ Cmd.UVPq \in Range(last.sent) /\ Cmd.OVPq \in Range(last.sent)

-----------------------------------------------------------------------------
(* C12 *)

\* The table entry of the subject's model for the quantity a setter programs.
Envelope(method) ==
    CASE method = "set_amperage" -> CURs[ZUPva(ModelV(Subject.cat.mdl), ModelA(Subject.cat.mdl))]
      [] method = "set_voltage" -> VOLs[ZUPxy(ModelV(Subject.cat.mdl))]
      [] method = "set_under_voltage_protection" -> UVPs[ZUPxy(ModelV(Subject.cat.mdl))]
      [] method = "set_over_voltage_protection" -> OVPs[ZUPxy(ModelV(Subject.cat.mdl))]

LimitSetters == {"set_amperage", "set_under_voltage_protection", "set_over_voltage_protection"}

\* C12: set_amperage, set_under_voltage_protection and set_over_voltage_protection raise
\* TypeError for an argument that is not an int or float and ValueError for a number outside
\* [min, MAX] of the model's table entry for the quantity; in both cases the call has
\* transmitted nothing, the map of listening addresses is as before and so is the bus.
C12_RejectedBeforeAnyByte ==
    last.method \in LimitSetters =>
        /\ ~IsReal(last.arg) =>
            last.exc = "TypeError" /\ last.sent = <<>> /\ listening_addresses = last.la /\ zbus[last.self.port] = last.bus
        /\ (IsReal(last.arg) /\ (last.arg.val < Envelope(last.method).min \/ last.arg.val > Envelope(last.method).MAX)) =>
            last.exc = "ValueError" /\ last.sent = <<>> /\ listening_addresses = last.la /\ zbus[last.self.port] = last.bus

\* set_under_voltage_protection was called with a number above the model's UVP MAX:
\* it raised ValueError.
C12_Witness ==
    /\ Numeric("set_under_voltage_protection")
    /\ last.arg.val > Envelope(last.method).MAX
    /\ last.exc = "ValueError"
    /\ zwire[last.self.port] # <<>>

-----------------------------------------------------------------------------
(* C13 *)

Setters == LimitSetters \cup {"set_voltage"}

\* The command keyword of a setter.
KeyOf(method) ==
    CASE method = "set_amperage" -> Cmd.CUR
      [] method = "set_voltage" -> Cmd.VOL
      [] method = "set_under_voltage_protection" -> Cmd.UVP
      [] method = "set_over_voltage_protection" -> Cmd.OVP

\* C13: a setter that returned has sent, as its last command, its keyword with the value in
\* the format the model's table assigns to the quantity set (VOL, CUR, UVP, OVP format for
\* set_voltage, set_amperage, set_under_voltage_protection, set_over_voltage_protection),
\* and after set_over_voltage_protection(OVP MAX) the supply's over-voltage limit is OVP MAX.
C13_FormatOfTheQuantity ==
    (last.method \in Setters /\ last.exc = "none") =>
        /\ last.sent # <<>>
        /\ last.sent[Len(last.sent)] = KeyOf(last.method) \o format(Envelope(last.method).Format, last.arg.val) \o Cmd.End
        /\ (last.method = "set_over_voltage_protection" /\ last.arg.val = Envelope(last.method).MAX) =>
            SubjectNow.ovp = Envelope(last.method).MAX

-----------------------------------------------------------------------------
(* C14 *)

\* C14 as stated: a construction transmits nothing but the addressing command and MDL?.
C14_OnlyModelQuery ==
    last.method = "__init__" => Range(last.sent) \subseteq {ZupADR(last.self.address), Cmd.MDLq}

\* C14: a construction transmits nothing but the addressing command, RMT2 and MDL?, and
\* but for the remote mode every register of every supply on the bus is as before.
C14_RemoteModeOnly ==
    last.method = "__init__" =>
        /\ Range(last.sent) \subseteq {ZupADR(last.self.address), Cmd.RMT2, Cmd.MDLq}
        /\ \A a \in Devices : [zbus[last.self.port].dev[a] EXCEPT !.rmt = 0] = [last.bus.dev[a] EXCEPT !.rmt = 0]

\* A handle was constructed for a supply that was powered at a set voltage: the three
\* commands were sent and the supply is now latched.
C14_Witness ==
    /\ last.method = "__init__" /\ last.exc = "none"
    /\ last.sent = <<ZupADR(last.self.address), Cmd.RMT2, Cmd.MDLq>>
    /\ Subject.out = 1 /\ Subject.vol > 0 /\ Subject.rmt = 1
    /\ SubjectNow.rmt = 2

-----------------------------------------------------------------------------
(* C15 *)

-----------------------------------------------------------------------------
(* C16 *)

\* The exception the arguments of a construction call for: TypeError for an address that is
\* not an int, ValueError for an int outside 1..31 or a baud rate outside the six rates.
Expected(arg) ==
    IF arg.address.type # "int" THEN "TypeError"
    ELSE IF arg.address.val \notin 1..31 THEN "ValueError"
    ELSE IF arg.baudrate \notin {300, 600, 1200, 2400, 4800, 9600} THEN "ValueError"
    ELSE "none"

\* C16: a construction with an address that is not an int raises TypeError, with an int
\* outside 1..31 or a baud rate outside {300, 600, 1200, 2400, 4800, 9600} it raises
\* ValueError; in each case nothing is written to any port, the map of listening addresses
\* is unchanged and no handle is added.
C16_InvalidArgumentsRejected ==
    [][(last'.n # last.n /\ last'.method = "__init__" /\ Expected(last'.arg) # "none") =>
        /\ last'.exc = Expected(last'.arg)
        /\ zwire' = zwire /\ zbus' = zbus
        /\ listening_addresses' = listening_addresses
        /\ handles' = handles]_vars

\* After a handle was constructed, a construction with address 42 raised ValueError.
C16_Witness ==
    /\ last.method = "__init__" /\ last.arg.address = [type |-> "int", val |-> 42] /\ last.arg.baudrate = 9600
    /\ last.exc = "ValueError" /\ last.sent = <<>>
    /\ handles # {}

-----------------------------------------------------------------------------
(* C17 *)

\* The settle delays over the commands w of a port, g[i] being the milliseconds between
\* command i and the transmission before it: 10 before an ADR command, 30 after an ADR
\* command, 15 after any other command.
Settles(w, g) ==
    \A i \in 1..Len(w) :
        /\ IsADR(w[i]) => g[i] >= 10
        /\ (i > 1 /\ IsADR(w[i - 1])) => g[i] >= 30
        /\ (i > 1 /\ ~IsADR(w[i - 1])) => g[i] >= 15

\* C17: on the sequencer's port and on every port of the Zup class, at least 10 ms lie
\* between a transmission and the ADR command after it, at least 30 ms between an ADR
\* command and the next transmission, and at least 15 ms between any other command and
\* the next transmission.
C17_SettleDelays ==
    /\ Settles(wire, gaps)
    /\ \A p \in Ports : Settles(zwire[p], zgaps[p])

\* The sequencer has addressed a second supply: the ADR command came 35 ms after the command
\* before it and the next command 35 ms after the ADR command.
C17_Witness ==
    \E i \in 2..(Len(wire) - 1) :
        /\ IsADR(wire[i]) /\ ~IsADR(wire[i - 1]) /\ ~IsADR(wire[i + 1])
        /\ gaps[i] = 35 /\ gaps[i + 1] = 35

-----------------------------------------------------------------------------
(* C18 *)

\* The leading and trailing digits each key of FORMATS names.
Digits ==
    ("1.2" :> <<1, 2>>) @@ ("1.3" :> <<1, 3>>) @@ ("1.4" :> <<1, 4>>) @@ ("2.1" :> <<2, 1>>) @@
    ("2.2" :> <<2, 2>>) @@ ("2.3" :> <<2, 3>>) @@ ("3.1" :> <<3, 1>>) @@ ("3.2" :> <<3, 2>>)

\* s is L digits, a point and T digits, and reads as the number q of 10^-T.
WellFormed(s, L, T, q) ==
    /\ Len(s) = L + T + 1
    /\ s[L + 1] = "."
    /\ \A i \in (1..Len(s)) \ {L + 1} : IsDigit(s[i])
    /\ float(s) = q * Pow10(4 - T)

\* The last formatting gave, for a value that has become the number q of 10^-T, a well
\* formed string for L and T, and the sequencer's _Format gave the same string.
FormattedAs(L, T) ==
    /\ WellFormed(last.ret, L, T, round(last.arg.value, T))
    /\ last.legacy = last.ret

\* C18 as stated: for every format of FORMATS with L leading and T trailing digits and every
\* value >= 0 with at most L digits before the point, the formatted string has L + T + 1
\* characters, is zero padded, reads as the value rounded to T decimals, and _Format gives
\* the same string.
C18_FitsByIntegerPart ==
    (last.method = "format" /\ last.arg.value < Pow10(Digits[last.arg.key][1]) * Unit) =>
        FormattedAs(Digits[last.arg.key][1], Digits[last.arg.key][2])

\* C18: the same for every value >= 0 whose rounding to T decimals is below 10^L.
C18_FitsAfterRounding ==
    (last.method = "format"
        /\ round(last.arg.value, Digits[last.arg.key][2]) < Pow10(Digits[last.arg.key][1] + Digits[last.arg.key][2])) =>
        FormattedAs(Digits[last.arg.key][1], Digits[last.arg.key][2])

\* 0.0449 was formatted with '2.2': it was rounded down and padded to '00.04'.
C18_Witness ==
    /\ last.method = "format" /\ last.arg.key = "2.2" /\ last.arg.value = 449
    /\ last.ret = <<"0", "0", ".", "0", "4">>

-----------------------------------------------------------------------------
(* C19 *)

\* The nineteen model strings of the catalogue.
CatalogModels == Models \ {Model.m120V_3p6, Model.m36V_10A, Model.m40V_5A}

\* The rated current of the subject, from its model string, in units of 10^-4 A.
SubjectRatedA == float(ModelA(Subject.cat.mdl))

\* C19: a construction for a supply that reports a catalogue model 'ZUP(<v>V-<a>A)' to valid
\* arguments returns; the handle's current entry is CURs['ZUP<v>-<a>'] and its voltage, OVP
\* and UVP entries are VOLs, OVPs and UVPs['ZUP<v>-XY'], keys that exist in the tables (the
\* current and voltage maxima being 105 % of <a> and of <v>); and any two handles resolved
\* from the same reply have identical entries.
C19_ResolvedFromTables ==
    /\ (last.method = "__init__" /\ Expected(last.arg) = "none" /\ last.self.address \in Devices
            /\ Subject.cat.mdl \in CatalogModels) =>
        /\ last.exc = "none"
        /\ ZUPva(ModelV(Subject.cat.mdl), ModelA(Subject.cat.mdl)) \in DOMAIN CURs
        /\ ZUPxy(ModelV(Subject.cat.mdl)) \in DOMAIN VOLs \cap DOMAIN OVPs \cap DOMAIN UVPs
        /\ last.self.CUR = CURs[ZUPva(ModelV(Subject.cat.mdl), ModelA(Subject.cat.mdl))]
        /\ last.self.VOL = VOLs[ZUPxy(ModelV(Subject.cat.mdl))]
        /\ last.self.OVP = OVPs[ZUPxy(ModelV(Subject.cat.mdl))]
        /\ last.self.UVP = UVPs[ZUPxy(ModelV(Subject.cat.mdl))]
        /\ last.self.CUR.MAX * 100 = SubjectRatedA * 105
        /\ last.self.VOL.MAX * 100 = SubjectRatedV * 105
    /\ \A h1, h2 \in handles :
        h1.CUR = h2.CUR /\ h1.VOL = h2.VOL /\ h1.OVP = h2.OVP /\ h1.UVP = h2.UVP

\* Two handles were constructed for supplies that report 'ZUP(60V-3.5A)'.
C19_Witness ==
    /\ last.method = "__init__" /\ last.exc = "none" /\ Subject.cat.mdl = Model.m60V_3p5A
    /\ Cardinality(handles) = 2
    /\ last.self.CUR.MAX = 36750

-----------------------------------------------------------------------------
(* C20 *)

\* The supply at address a reports a model that no table lists.
Unlisted(a) == a \in Devices /\ dev[a].cat.mdl \notin CatalogModels

\* A command that programs a set-point or a limit, or turns the output on.
Programs(cmd) ==
    \/ cmd = Cmd.OUT1
    \/ /\ Keyword(cmd) \in {Keyword(Cmd.VOLq), Keyword(Cmd.CURq), Keyword(Cmd.UVPq), Keyword(Cmd.OVPq)}
       /\ IsFloat(Argument(cmd))

\* C20: a construction for a supply that reports an unlisted model raises and adds no
\* handle; ZUps_ON sends a supply that reports an unlisted model no VOL, CUR, UVP, OVP or OUT1
\* command, and it does not return when a supply of its plan reports an unlisted model.
C20_UnknownModelIsFatal ==
    /\ (last.method = "__init__" /\ Expected(last.arg) = "none" /\ Unlisted(last.self.address)) =>
        last.exc # "none" /\ last.self \notin handles
    /\ CallON =>
        /\ \A i \in 1..Len(wire) : Unlisted(Target(i)) => ~Programs(wire[i])
        /\ pc = "returned" => \A k \in 1..Len(ZUps) : ~Unlisted(ZUps[k].Address)

-----------------------------------------------------------------------------
(* The client of the class: vocabulary *)

\* The last call was of method m and returned.
ReturnedFrom(m) == last.n > 0 /\ last.method = m /\ last.exc = "none"

\* The bus of the last call as it was before the call, with the handle's supply listening
\* and nothing to read.
SubjectBus == [last.bus EXCEPT !.listen = last.self.address, !.rx = <<>>]

\* What the supply listening on bus b answers to each of the commands, as a str without
\* its '\r\n'; <<>> where it sends no line.
RECURSIVE Replies(_, _)
Replies(b, commands) ==
    IF commands = <<>> THEN <<>>
    ELSE <<IF Deliver(b, Head(commands)).rx = <<>> THEN <<>>
           ELSE SubSeq(Deliver(b, Head(commands)).rx[1], 1, Len(Deliver(b, Head(commands)).rx[1]) - 2)>>
         \o Replies([Deliver(b, Head(commands)) EXCEPT !.rx = <<>>], Tail(commands))

\* The supply of the last call's handle, now.
SubjectSupply == zbus[last.self.port].dev[last.self.address]

\* The commands of the last call other than ADR.
SentCommands == SelectSeq(last.sent, LAMBDA c : ~IsADR(c))

\* The battery of get_statuses: MDL?, REV?, VOL!, VOL?, UVP?, OVP?, CUR!, CUR?, FLD?, RMT?, AST?,
\* STA?, STP?, ALM?, SRV?, SRT?, SRF?.
Battery ==
    << <<":", "M", "D", "L", "?", ";">>, <<":", "R", "E", "V", "?", ";">>, <<":", "V", "O", "L", "!", ";">>,
       <<":", "V", "O", "L", "?", ";">>, <<":", "U", "V", "P", "?", ";">>, <<":", "O", "V", "P", "?", ";">>,
       <<":", "C", "U", "R", "!", ";">>, <<":", "C", "U", "R", "?", ";">>, <<":", "F", "L", "D", "?", ";">>,
       <<":", "R", "M", "T", "?", ";">>, <<":", "A", "S", "T", "?", ";">>, <<":", "S", "T", "A", "?", ";">>,
       <<":", "S", "T", "P", "?", ";">>, <<":", "A", "L", "M", "?", ";">>, <<":", "S", "R", "V", "?", ";">>,
       <<":", "S", "R", "T", "?", ";">>, <<":", "S", "R", "F", "?", ";">> >>

\* The commands the last call was to issue.
Commanded == IF last.method = "get_statuses" THEN Battery ELSE last.arg

-----------------------------------------------------------------------------
(* C21 *)

-----------------------------------------------------------------------------
(* C22 *)

\* The step is a call of query on the handle whose setter has just returned, and the query returns.
QueryAfter(setter, query) ==
    /\ ReturnedFrom(setter)
    /\ last'.n = last.n + 1 /\ last'.method = query /\ last'.self = last.self /\ last'.exc = "none"

\* The query returns True after the setter was given the state on, False after the state off,
\* however the state was spelled.
RoundTrip(setter, query, on, off) ==
    QueryAfter(setter, query) =>
        /\ (lower(last.arg.val) = lower(on)) => (last'.ret = TRUE)
        /\ (lower(last.arg.val) = lower(off)) => (last'.ret = FALSE)

\* The step is a call of setter with one of the states, in any case, on an open port.
SetsOneOf(setter, states) ==
    /\ last'.n = last.n + 1 /\ last'.method = setter /\ last'.open
    /\ last'.arg.type = "str" /\ \E s \in states : lower(last'.arg.val) = lower(s)

\* C22: on a supply that answers a state query with the state last programmed, a query that
\* follows its setter on the same handle returns what was set: power_on() is True after
\* set_power('On') and False after set_power('Off'), autostart_on() likewise after
\* set_autostart, foldback_on() is True after set_foldback('Arm') and False after
\* set_foldback('Cancel'), remote_latched() is True after set_remote_mode('Remote Latched') and
\* False after set_remote_mode('Remote Unlatched'); the setters accept the state names in any case.
C22_SetThenQuery ==
    [][ /\ RoundTrip("set_power", "power_on", State.On, State.Off)
        /\ RoundTrip("set_autostart", "autostart_on", State.On, State.Off)
        /\ RoundTrip("set_foldback", "foldback_on", State.Arm, State.Cancel)
        /\ RoundTrip("set_remote_mode", "remote_latched", State.Latched, State.Unlatched)
        /\ (\/ SetsOneOf("set_power", {State.On, State.Off})
            \/ SetsOneOf("set_autostart", {State.On, State.Off})
            \/ SetsOneOf("set_foldback", {State.Release, State.Arm, State.Cancel})
            \/ SetsOneOf("set_remote_mode", {State.Local, State.Unlatched, State.Latched}))
           => (last'.exc = "none") ]_vars

\* power_on() has returned True for a supply whose output was off until a call of
\* set_power switched it on.
C22_Witness ==
    /\ ReturnedFrom("power_on") /\ last.ret = TRUE
    /\ \E i \in 1..Len(issued[last.self.port]) :
        /\ issued[last.self.port][i].command = Cmd.OUT1
        /\ issued[last.self.port][i].address = last.self.address

-----------------------------------------------------------------------------
(* C23 *)

\* C23: for each of the three service requests (over-voltage, over-temperature, foldback),
\* service_request_X_on() returns True when it follows set_service_request_X('On') on the
\* same handle, the supply answering 'QV1', 'QT1' or 'QF1', and False when it follows
\* set_service_request_X('Off').
C23_ServiceRequestSetThenQuery ==
    [][ /\ RoundTrip("set_service_request_over_voltage", "service_request_over_voltage_on", State.On, State.Off)
        /\ RoundTrip("set_service_request_over_temperature", "service_request_over_temperature_on", State.On, State.Off)
        /\ RoundTrip("set_service_request_foldback", "service_request_foldback_on", State.On, State.Off) ]_vars

-----------------------------------------------------------------------------
(* C24 *)

\* The numeric getters with the prefix each expects, and the boolean queries.
Prefix ==
    [ get_voltage_actual |-> <<"A", "V">>, get_voltage_set |-> <<"S", "V">>,
      get_amperage_actual |-> <<"A", "A">>, get_amperage_set |-> <<"S", "A">>,
      get_under_voltage_protection |-> <<"U", "P">>, get_over_voltage_protection |-> <<"O", "P">> ]

BooleanQueries ==
    { "power_on", "autostart_on", "foldback_on", "remote_latched", "service_request_over_voltage_on",
      "service_request_over_temperature_on", "service_request_foldback_on" }

\* The last call was a query whose read timed out: its command was written, nothing was
\* waiting in the input buffer and no supply was listening, so that no line arrived.
TimedOut ==
    /\ last.n > 0 /\ last.method \in DOMAIN Prefix \cup BooleanQueries
    /\ last.bus.rx = <<>> /\ last.bus.listen = 0
    /\ Len(last.sent) = 1 /\ ~IsADR(last.sent[1])

\* The exceptions that report a failure of input or output.
IOErrors == {"SerialException", "TimeoutError", "OSError"}

\* C24: a query whose read times out, the supply sending no line within the timeout, raises
\* an I/O error and returns no value; this holds of the numeric getters and of power_on,
\* autostart_on, foldback_on, remote_latched and the three service-request queries.
C24_TimeoutIsIOError == TimedOut => last.exc \in IOErrors

-----------------------------------------------------------------------------
(* C25 *)

\* The line the last call read, when one was waiting in the input buffer before the call.
LineRead == SubSeq(Head(last.bus.rx), 1, Len(Head(last.bus.rx)) - 2)

BeginsWith(s, p) == Len(s) >= Len(p) /\ SubSeq(s, 1, Len(p)) = p

\* C25: a numeric query (get_voltage_actual, get_voltage_set, get_amperage_actual,
\* get_amperage_set, get_under_voltage_protection, get_over_voltage_protection) returns a
\* number only when the reply it read begins with its prefix (AV, SV, AA, SA, UP, OP); when
\* the reply lacks the prefix the query raises an error instead.
C25_NumberOnlyWithPrefix ==
    (last.n > 0 /\ last.method \in DOMAIN Prefix /\ last.bus.rx # <<>> /\ last.open) =>
        (last.exc = "none" => BeginsWith(LineRead, Prefix[last.method]))

-----------------------------------------------------------------------------
(* C26 *)

\* The supply of the last call's handle as it was before the call.
SubjectBefore == last.bus.dev[last.self.address]

\* The supply's set voltage and limits were within the ranges of the handle's model.
WithinEnvelopes(d, self) ==
    /\ self.VOL.min <= d.vol /\ d.vol <= self.VOL.MAX
    /\ self.UVP.min <= d.uvp /\ d.uvp <= self.UVP.MAX
    /\ self.OVP.min <= d.ovp /\ d.ovp <= self.OVP.MAX

\* The commands of the last call that are neither ADR nor queries.
Programmed == SelectSeq(last.sent, LAMBDA c : ~IsADR(c) /\ ~IsQuery(c))

\* Command c programs the set-point of keyword k to the value x.
Sets(c, k, x) == IsSet(c, k) /\ float(Argument(c)) = x

\* C26: for every catalogue model and every state of the supply in which the set voltage and
\* both limits are within the model's ranges, configure() returns None without raising, having
\* programmed in this order DCL, OUT0, AST0, FLD2, SRV0, SRT0, SRF0, UVP to its minimum, OVP to
\* its maximum, VOL to 0, CUR to 0 and RMT2; the supply is then off at 0 V / 0 A with the
\* under-voltage limit at its minimum, the over-voltage limit at its maximum, in Remote Latched mode.
C26_ConfigureResets ==
    (last.n > 0 /\ last.method = "configure" /\ WithinEnvelopes(SubjectBefore, last.self)) =>
        /\ last.exc = "none" /\ last.ret = "None"
        /\ Len(Programmed) = 12
        /\ SubSeq(Programmed, 1, 7) = <<Cmd.DCL, Cmd.OUT0, Cmd.AST0, Cmd.FLD2, Cmd.SRV0, Cmd.SRT0, Cmd.SRF0>>
        /\ Sets(Programmed[8], Cmd.UVP, last.self.UVP.min)
        /\ Sets(Programmed[9], Cmd.OVP, last.self.OVP.MAX)
        /\ Sets(Programmed[10], Cmd.VOL, 0)
        /\ Sets(Programmed[11], Cmd.CUR, 0)
        /\ Programmed[12] = Cmd.RMT2
        /\ SubjectSupply.out = 0 /\ SubjectSupply.vol = 0 /\ SubjectSupply.cur = 0
        /\ SubjectSupply.uvp = last.self.UVP.min /\ SubjectSupply.ovp = last.self.OVP.MAX
        /\ SubjectSupply.rmt = 2

-----------------------------------------------------------------------------
(* C27 *)

\* C27: __del__() on a handle for address A leaves the supply at A in Remote Unlatched mode,
\* the mode ':RMT?;' reports as 'RM1': the finalizer returns, having written RMT1 to the
\* supply at A, after ADR for A when another supply (or none) was listening, and after
\* reopening the port when it was closed; no other supply on the port is changed.
C27_FinalizerUnlatches ==
    (last.n > 0 /\ last.method = "__del__") =>
        /\ last.exc = "none"
        /\ last.sent \in {<<Cmd.RMT1>>, <<ZupADR(last.self.address), Cmd.RMT1>>}
        /\ (last.bus.listen # last.self.address) => (last.sent = <<ZupADR(last.self.address), Cmd.RMT1>>)
        /\ SubjectSupply.rmt = 1
        /\ Replies([zbus[last.self.port] EXCEPT !.listen = last.self.address], <<Cmd.RMTq>>) = << <<"R", "M", "1">> >>
        /\ \A a \in Devices \ {last.self.address} : zbus[last.self.port].dev[a] = last.bus.dev[a]

-----------------------------------------------------------------------------
(* C28 *)

\* Thread t is inside _write_command.
InExchange(t) == threads[t].pc # "idle"

\* C28: when two threads issue commands through two handles with different addresses on the
\* same port, the exchanges on the bus exclude one another: at most one thread is inside an
\* exchange (test and update of the listening address, write of ADR, write of the command) at
\* a time, and every command other than ADR is received by the supply of the handle that
\* issued it.
C28_ExchangesExclusive ==
    (threads # <<>>) =>
        /\ \A t, u \in Threads : (InExchange(t) /\ InExchange(u)) => (t = u)
        /\ \A t \in Threads : \A i \in 1..Len(threads[t].received) :
            threads[t].received[i].by = threads[t].self.address

-----------------------------------------------------------------------------
(* C29 *)

\* The listening address the class holds for port p (0: none).
Entry(la, p) == IF p \in DOMAIN la THEN la[p] ELSE 0

\* The step is an operation through a handle on port p: it adds to the calls logged for p.
OperationOn(p) == Len(issued'[p]) > Len(issued[p])

\* C29: the buses behind distinct ports are independent: an operation through a handle on port
\* P changes the listening address of P alone and writes to P alone; for every other port Q the
\* listening address, what has been written to Q and the bus and supplies behind Q stay as
\* they were, however operations on P and on Q alternate.
C29_PortsIndependent ==
    [][ \A P \in Ports : OperationOn(P) =>
            \A Q \in Ports \ {P} :
                /\ Entry(listening_addresses', Q) = Entry(listening_addresses, Q)
                /\ zwire'[Q] = zwire[Q]
                /\ zbus'[Q] = zbus[Q]
                /\ issued'[Q] = issued[Q] ]_vars

\* Operations on both ports have alternated, and the ports hold different listening addresses.
C29_Witness ==
    /\ Entry(listening_addresses, "COM1") = 1 /\ zbus["COM1"].listen = 1
    /\ Entry(listening_addresses, "COM2") = 2 /\ zbus["COM2"].listen = 2
    /\ Len(zwire["COM1"]) >= 3 /\ Len(zwire["COM2"]) >= 2
    /\ \E h \in handles : h.port = "COM1"
    /\ \E h \in handles : h.port = "COM2"

-----------------------------------------------------------------------------
(* C30 *)

\* C30: every plan ZUps_ON acts on, that is, sends any command to the bus for, has between 1
\* and 31 entries, with addresses in 1..31 that are pairwise distinct; an empty plan, a plan of
\* more than 31 entries and a plan that repeats an address are rejected by the validation,
\* so that nothing is sent for them.
C30_PlanWellFormed ==
    (CallON /\ wire # <<>>) =>
        /\ Len(ZUps) \in 1..31
        /\ \A k \in 1..Len(ZUps) : ZUps[k].Address \in 1..31
        /\ \A k, l \in 1..Len(ZUps) : (k # l) => (ZUps[k].Address # ZUps[l].Address)

-----------------------------------------------------------------------------
(* C31 *)

\* The limits, set-points and OUT1 commands from position i of the wire on that went to the
\* supply at address a, oldest first; t is the address named by the last ADR before i.
RECURSIVE SetCommandsFrom(_, _, _)
SetCommandsFrom(a, i, t) ==
    IF i > Len(wire) THEN <<>>
    ELSE IF IsADR(wire[i]) THEN SetCommandsFrom(a, i + 1, Named(wire[i]))
    ELSE (IF t = a /\ (IsLimit(wire[i]) \/ IsSetPoint(wire[i])) THEN <<wire[i]>> ELSE <<>>)
         \o SetCommandsFrom(a, i + 1, t)

\* The limits, set-points and OUT1 commands the supply at address a has been sent.
SetCommandsTo(a) == SetCommandsFrom(a, 1, 0)

\* A step of the order: the keyword of a command and the value it carries (-1: any).
Kind(key, val) == [key |-> key, val |-> val]

\* The value a supply stores of x sent to it with T decimals.
Stored(x, T) == round(x, T) * Pow10(4 - T)

\* The order for one entry z, the supply's set current being SA when it is read back:
\* UVP(min), OVP(max), [CUR(target)], VOL(target), OUT1, CUR(target), OVP(final), UVP(final).
EntryOrder(z, SA) ==
    LET c == Catalog(z.Address)
        CUR == Kind(<<"C", "U", "R">>, Stored(z.Amperage, c.fC[2]))
        VOL == Kind(<<"V", "O", "L">>, Stored(z.Voltage, c.fV[2]))
        OVP == Kind(<<"O", "V", "P">>, -1)
    IN  <<Kind(<<"U", "V", "P">>, 0), OVP>> \o (IF z.Amperage > SA THEN <<CUR>> ELSE <<>>)
        \o <<VOL, Kind(<<"O", "U", "T">>, -1), CUR, OVP,
             Kind(<<"U", "V", "P">>, Stored((z.Voltage * 90) \div 100, c.fU[2]))>>

\* The order for the supply at address a over the entries of the plan that name it, the
\* supply's set current being SA before the first of them.
RECURSIVE PlanOrder(_, _, _)
PlanOrder(plan, a, SA) ==
    IF plan = <<>> THEN <<>>
    ELSE IF Head(plan).Address # a THEN PlanOrder(Tail(plan), a, SA)
    ELSE EntryOrder(Head(plan), SA) \o PlanOrder(Tail(plan), a, Stored(Head(plan).Amperage, Catalog(a).fC[2]))

\* Command cmd is the step e of the order.
IsKind(cmd, e) ==
    /\ Keyword(cmd) = e.key
    /\ IF e.key = <<"O", "U", "T">> THEN cmd = Cmd.OUT1 ELSE IsFloat(Argument(cmd))
    /\ (e.val # -1) => (float(Argument(cmd)) = e.val)

\* The configuration of the supplies is complete.
Configured == pc \in {"_ZUps_VerifyActualVAs", "close", "returned"}

\* C31: within ZUps_ON, the limits, set-points and OUT1 sent to the supply of a plan entry
\* appear in the order UVP(min), OVP(max), [CUR(target)], VOL(target), OUT1, CUR(target),
\* OVP(final), UVP(final), the CUR before VOL being sent if and only if the target current
\* exceeds the set current read back with CUR!; every supply has been sent the whole of it
\* when the configuration is complete.  Hence OUT1 precedes the final OVP and UVP, and a CUR
\* after VOL that raises the current was preceded by the same CUR before VOL.
C31_EntryOrder ==
    CallON =>
        \A a \in Range(Addresses) \cap Devices :
            LET sent == SetCommandsTo(a)
                order == PlanOrder(ZUps, a, Stored(dev0[a].cur, Catalog(a).fC[2]))
            IN  /\ Len(sent) <= Len(order)
                /\ \A i \in 1..Len(sent) : IsKind(sent[i], order[i])
                /\ Configured => (Len(sent) = Len(order))

\* ZUps_ON has returned for a plan of two supplies whose set current was 3 A: the first, with
\* a target of 20 A, was sent CUR before VOL; the second, with a target of 1 A, was not.
C31_Witness ==
    /\ CallON /\ pc = "returned" /\ Len(ZUps) = 2 /\ DistinctAddresses
    /\ dev0[Addresses[1]].cur = 3 * Unit
    /\ ZUps[1].Amperage = 20 * Unit /\ Len(SetCommandsTo(Addresses[1])) = 8
    /\ ZUps[2].Amperage = Unit /\ Len(SetCommandsTo(Addresses[2])) = 7

-----------------------------------------------------------------------------
(* The voltage and its two protection limits programmed through handles, with *)
(* values that lie close to one another: the window UVP <= 0.95 x VOL and     *)
(* 1.05 x VOL <= OVP is tested on the value given, the command carries the    *)
(* value in the digits of its format.                                         *)

\* Set voltages: 9.99, 10.0, 10.01 and 20.0 V.
WindowVoltages == { real(v) : v \in {99900, 100000, 100100, 200000} }

\* Under-voltage limits: 0, 9.46 and 9.5 V.
WindowUnderVoltages == { real(v) : v \in {0, 94600, 95000} }

\* Over-voltage limits: 10.5, 10.52 and 24.0 V.
WindowOverVoltages == { real(v) : v \in {105000, 105200, 240000} }

\* self.set_voltage(volts).
ProgramVoltage ==
    \E self \in handles, volts \in WindowVoltages :
        Step("set_voltage", self, volts, None(set_voltage(ZWorld(-1), self, volts)))

\* self.set_under_voltage_protection(volts).
ProgramUnderVoltageProtection ==
    \E self \in handles, volts \in WindowUnderVoltages :
        Step("set_under_voltage_protection", self, volts, None(set_under_voltage_protection(ZWorld(-1), self, volts)))

\* self.set_over_voltage_protection(volts).
ProgramOverVoltageProtection ==
    \E self \in handles, volts \in WindowOverVoltages :
        Step("set_over_voltage_protection", self, volts, None(set_over_voltage_protection(ZWorld(-1), self, volts)))

NextWindow == Make \/ ProgramVoltage \/ ProgramUnderVoltageProtection \/ ProgramOverVoltageProtection

\* The models of the supplies: 10 V, 20 V and 36 V.
WindowModels == {Model.m10V_20A, Model.m20V_10A, Model.m36V_6A}

\* The class as loaded; every supply behind the ports is of one model, as configure() leaves
\* it or programmed to about half its ratings.
InitWindow ==
    /\ listen = 1 /\ dev = [a \in Devices |-> Supply(Catalog(a), DevState(0, Unit \div 2, 0))]
    /\ InitSequencer
    /\ InitClass
    /\ last = NoCall
    /\ \E mdl \in WindowModels, programmed \in BOOLEAN :
        zbus = [p \in Ports |-> Bus([a \in Devices |-> Supply(Installed(mdl), Registers(mdl, programmed))])]

SpecWindow == InitWindow /\ [][NextWindow]_vars

-----------------------------------------------------------------------------
(* C32 *)

\* The registers d of a supply keep the window of the handle self's model:
\* UVP_min <= UVP <= 0.95 x VOL and 1.05 x VOL <= OVP <= OVP_max.
WindowKept(d, self) ==
    /\ self.UVP.min <= d.uvp /\ d.uvp * 100 <= d.vol * 95
    /\ d.vol * 105 <= d.ovp * 100 /\ d.ovp <= self.OVP.MAX

\* C32: on a supply that stores the values transmitted to it and starts with
\* UVP <= 0.95 x VOL and 1.05 x VOL <= OVP, after every sequence of calls of set_voltage,
\* set_under_voltage_protection and set_over_voltage_protection, raising or not, the stored
\* values (as transmitted, rounded to the digits of the format) satisfy
\* UVP_min <= UVP <= 0.95 x VOL and 1.05 x VOL <= OVP <= OVP_max.
C32_WindowKept ==
    \A self \in handles : WindowKept(zbus[self.port].dev[self.address], self)

-----------------------------------------------------------------------------
(* The strings _ZUps_PowerVAs forms for one plan entry, as a function of the  *)
(* model the supply reports: a catalogue model, a voltage of the plan within  *)
(* the model's rating and the rated current are drawn, then the strings of    *)
(* VOL, CUR, UVP, UVPmin, OVP and OVPmax are formed.                          *)

\* Rated voltage and current of a model string, in units of 10^-4.
Rated(mdl) == [V |-> float(ModelV(mdl)), A |-> float(ModelA(mdl))]

\* The plan voltages tried for a model: 0, 0.1 V, 1 V, half the rating, 0.01 V below the
\* rating and the rating; 90 % and 110 % of none lie halfway between two steps of a format.
PlanVoltages(mdl) ==
    { 0, Unit \div 10, Unit, Rated(mdl).V \div 2, Rated(mdl).V - Unit \div 100, Rated(mdl).V }

InitCatalog ==
    /\ listen = 1 /\ dev = [a \in Devices |-> Supply(Catalog(a), DevState(0, Unit \div 2, 0))]
    /\ InitSequencer
    /\ InitClass
    /\ zbus = [p \in Ports |-> Bus(dev)]
    /\ \E mdl \in CatalogModels : \E V \in PlanVoltages(mdl) :
        last = [n |-> 0, method |-> "none", arg |-> [MDL |-> mdl, Voltage |-> V, Amperage |-> Rated(mdl).A]]

\* The strings of one iteration of _ZUps_PowerVAs, from MDL and the entry's voltage and amperage.
FormPowerVAs ==
    /\ last.n = 0
    /\ last' = [n |-> 1, method |-> "_ZUps_PowerVAs", arg |-> last.arg,
                ret |-> [VOL |-> PowerVOL(last.arg.MDL, last.arg.Voltage),
                         CUR |-> PowerCUR(last.arg.MDL, last.arg.Amperage),
                         UVP |-> PowerUVP(last.arg.MDL, (last.arg.Voltage * (100 - _ZUp_VOL_TOLERANCE)) \div 100),
                         UVPmin |-> PowerUVP(last.arg.MDL, 0),
                         OVP |-> PowerOVP(last.arg.MDL, (last.arg.Voltage * (100 + _ZUp_VOL_TOLERANCE)) \div 100),
                         OVPmax |-> PowerOVPmax(last.arg.MDL)]]
    /\ UNCHANGED <<seqVars, listening_addresses, handles, zwire, issued, zbus, zgaps, zidle, zopen, threads>>

NextCatalog == FormPowerVAs

SpecCatalog == InitCatalog /\ [][NextCatalog]_vars

-----------------------------------------------------------------------------
(* C33 *)

\* The strings of _ZUps_PowerVAs have been formed.
Formed == last.method = "_ZUps_PowerVAs"

\* The entries of the Zup tables for the model of the last formation.
TableOf(mdl) ==
    [VOL |-> VOLs[ZUPxy(ModelV(mdl))], CUR |-> CURs[ZUPva(ModelV(mdl), ModelA(mdl))],
     UVP |-> UVPs[ZUPxy(ModelV(mdl))], OVP |-> OVPs[ZUPxy(ModelV(mdl))]]

\* The string s is a number within [min, MAX] of the table entry t, in the width of t's format.
WithinEntry(s, t) ==
    /\ IsFloat(s) /\ Len(s) = t.Format.width
    /\ t.min <= float(s) /\ float(s) <= t.MAX

\* C33: for every catalogue model and every plan voltage V with 0 <= V <= rated voltage, the
\* final protection values ZUps_ON transmits lie within [min, MAX] of the model's UVPs and
\* OVPs entries and have the width of the entry's format; the UVP is 0.9 x V and the OVP is
\* 1.1 x V or, when that is lower, the model's floor, each rounded to the digits sent.
C33_FinalLimitsWithinCatalog ==
    Formed =>
        /\ WithinEntry(last.ret.UVP, TableOf(last.arg.MDL).UVP)
        /\ WithinEntry(last.ret.OVP, TableOf(last.arg.MDL).OVP)
        /\ float(last.ret.UVP) = Stored((last.arg.Voltage * 90) \div 100, TableOf(last.arg.MDL).UVP.Format.precision)
        /\ float(last.ret.OVP) >= Stored((last.arg.Voltage * 110) \div 100, TableOf(last.arg.MDL).OVP.Format.precision)
        /\ (float(last.ret.OVP) > Stored((last.arg.Voltage * 110) \div 100, TableOf(last.arg.MDL).OVP.Format.precision))
            => (float(last.ret.OVP) >= TableOf(last.arg.MDL).OVP.min /\ last.arg.Voltage * 110 < float(last.ret.OVP) * 100)

\* The limits were formed for a 60 V supply at its rated voltage, where the OVP is the
\* maximum of the table, and for a 36 V supply at 0 V, where the OVP is the floor 1.8 V.
C33_Witness ==
    /\ Formed
    /\ \/ /\ last.arg.MDL = Model.m60V_7A /\ last.arg.Voltage = 60 * Unit
          /\ last.ret.OVP = <<"6", "6", ".", "0">> /\ last.ret.UVP = <<"5", "4", ".", "0">>
       \/ /\ last.arg.MDL = Model.m36V_6A /\ last.arg.Voltage = 0
          /\ last.ret.OVP = <<"0", "1", ".", "8">> /\ last.ret.UVP = <<"0", "0", ".", "0">>

-----------------------------------------------------------------------------
(* C38 *)

\* The string s, formed by the sequencer for the value x, is x in the format of the entry t.
AsTabulated(s, t, x) == s = format(t.Format, x)

\* C38: for each of the 19 catalogue models, the strings _ZUps_PowerVAs forms for VOL, CUR,
\* UVP and OVP have the leading and trailing digits that the tables VOLs, CURs, UVPs and OVPs
\* give the model: each string is the value in the format of the model's table entry.
C38_FormatsAsTabulated ==
    Formed =>
        /\ AsTabulated(last.ret.VOL, TableOf(last.arg.MDL).VOL, last.arg.Voltage)
        /\ AsTabulated(last.ret.CUR, TableOf(last.arg.MDL).CUR, last.arg.Amperage)
        /\ AsTabulated(last.ret.UVP, TableOf(last.arg.MDL).UVP, float(last.ret.UVP))
        /\ AsTabulated(last.ret.OVP, TableOf(last.arg.MDL).OVP, float(last.ret.OVP))

\* The same for every model but '120V-3.6A'.
C38_AllButOne == (Formed /\ last.arg.MDL # Model.m120V_3p6A) => C38_FormatsAsTabulated

-----------------------------------------------------------------------------
(* C39 *)

\* The call has ended: it returned or an exception left it.
Ended == pc \in {"returned", "raised"}

\* C39: ZUps_ON and ZUps_off leave the serial port closed on every exit on which they opened
\* it: the normal return, a failed validation of voltage or current, a failed verification,
\* and a transport error raised in the middle of a phase.
C39_ClosedOnEveryExit == (Ended /\ opens > 0) => ~is_open

\* The same for the exits without a transport error.
C39_ClosedUnlessTransportError == (Ended /\ opens > 0 /\ exc # "SerialException") => ~is_open

-----------------------------------------------------------------------------
(* C36 *)

\* The supplies the commands equal to c on the wire from position i on go to, in order, t
\* being the address named by the last ADR command before position i.
RECURSIVE TargetsFrom(_, _, _)
TargetsFrom(c, i, t) ==
    IF i > Len(wire) THEN <<>>
    ELSE IF IsADR(wire[i]) THEN TargetsFrom(c, i + 1, Named(wire[i]))
    ELSE (IF wire[i] = c THEN <<t>> ELSE <<>>) \o TargetsFrom(c, i + 1, t)

\* The supplies the iterations that send c went to, c being sent once in an iteration.
Iterations(c) == TargetsFrom(c, 1, 0)

IsPrefix(s, t) == Len(s) <= Len(t) /\ SubSeq(t, 1, Len(s)) = s

\* The entry of the plan whose iteration of _ZUps_PowerVAs sent the command at position i:
\* the number of ':RMT2;' commands up to it.
EntryOf(i) == Cardinality({ j \in 1..i : wire[j] = Cmd.RMT2 })

\* The command at position i carries the field of entry e in the format of the supply of e.
CarriesOf(i, e, field) ==
    /\ e \in 1..Len(ZUps) /\ Target(i) = ZUps[e].Address
    /\ Target(i) \in Devices
    /\ float(Argument(wire[i])) =
            Stored(ZUps[e][field], IF field = "Voltage" THEN Catalog(Target(i)).fV[2] ELSE Catalog(Target(i)).fC[2])

-----------------------------------------------------------------------------
(* The four setters of the set-points on a port whose writes may fail: a    *)
(* handle is made, then a setter is called with an argument inside or       *)
(* outside the tables' ranges and the present window, and any of the writes *)
(* of the call may raise serial.SerialException.                            *)

\* The arguments tried: a str, a number above the range, one in its middle, and 9.46 and 10.52.
FaultArgs(t) ==
    { [type |-> "str", val |-> t.MAX], real(t.MAX + Unit), real(Trunc(t.MAX \div 2, t.Format.precision)),
      real((946 * Unit) \div 100), real((1052 * Unit) \div 100) }

FaultySetVoltage ==
    \E self \in handles : \E volts \in FaultArgs(self.VOL), fuel \in Fuels :
        Step("set_voltage", self, volts, None(set_voltage(ZWorld(fuel), self, volts)))

FaultySetAmperage ==
    \E self \in handles : \E amperes \in FaultArgs(self.CUR), fuel \in Fuels :
        Step("set_amperage", self, amperes, None(set_amperage(ZWorld(fuel), self, amperes)))

FaultySetUnderVoltageProtection ==
    \E self \in handles : \E volts \in FaultArgs(self.UVP), fuel \in Fuels :
        Step("set_under_voltage_protection", self, volts, None(set_under_voltage_protection(ZWorld(fuel), self, volts)))

FaultySetOverVoltageProtection ==
    \E self \in handles : \E volts \in FaultArgs(self.OVP), fuel \in Fuels :
        Step("set_over_voltage_protection", self, volts, None(set_over_voltage_protection(ZWorld(fuel), self, volts)))

NextFaults ==
    \/ Make
    \/ FaultySetVoltage \/ FaultySetAmperage \/ FaultySetUnderVoltageProtection \/ FaultySetOverVoltageProtection

SpecFaults == InitWindow /\ [][NextFaults]_vars

-----------------------------------------------------------------------------
(* C34 *)

\* The last call was of one of the four setters and raised.
SetterRaised == last.n > 0 /\ last.method \in Setters /\ last.exc # "none"

\* The set-points of a supply.
SetPoints(d) == <<d.vol, d.cur, d.uvp, d.ovp>>

\* C34: whenever set_voltage, set_amperage, set_under_voltage_protection or
\* set_over_voltage_protection raises, the call has transmitted no ':VOL..;', ':CUR..;',
\* ':UVP..;' or ':OVP..;' set command, only the addressing command and read queries at
\* most, and the set-points of every supply on the port are those before the call.
C34_RaisedProgramsNothing ==
    SetterRaised =>
        /\ \A i \in 1..Len(last.sent) : IsADR(last.sent[i]) \/ IsQuery(last.sent[i])
        /\ \A a \in Devices : SetPoints(zbus[last.self.port].dev[a]) = SetPoints(last.bus.dev[a])

\* set_under_voltage_protection raised ValueError after it had read the set voltage, and
\* set_voltage raised SerialException when the write of its set command failed after both
\* limits had been read.
C34_Witness ==
    /\ SetterRaised
    /\ \/ /\ last.method = "set_under_voltage_protection" /\ last.exc = "ValueError"
          /\ Cmd.VOLx \in Range(last.sent)
       \/ /\ last.method = "set_voltage" /\ last.exc = "SerialException"
          /\ Cmd.UVPq \in Range(last.sent) /\ Cmd.OVPq \in Range(last.sent)

-----------------------------------------------------------------------------
(* C35 *)

\* The address named by the last ADR command of the commands s (0: none).
LastNamed(s) ==
    LET S == { j \in 1..Len(s) : IsADR(s[j]) }
    IN  IF S = {} THEN 0 ELSE Named(s[Max(S)])

\* The k-th call of _write_command on port p transmitted its command.
TransmittedCommand(p, k) ==
    issued[p][k].sent # <<>> /\ ~IsADR(issued[p][k].sent[Len(issued[p][k].sent)])

\* C35: on every port, whenever a command other than ADR is transmitted, the address the map
\* listening_addresses records for the port, which is then the address of the calling handle,
\* is the address of the last ADR command transmitted on the port, also after a call in which
\* the write of ADR or of the command failed.
C35_MapNamesListener ==
    \A p \in Ports :
        /\ issued[p] # <<>> =>
            (p \in DOMAIN listening_addresses /\ listening_addresses[p] = issued[p][Len(issued[p])].address)
        /\ \A k \in 1..Len(issued[p]) :
            TransmittedCommand(p, k) =>
                LastNamed(Transmitted(SubSeq(issued[p], 1, k))) = issued[p][k].address

\* The same as long as no call on the port has raised.
C35_UnlessWriteFailed ==
    \A p \in Ports : \A k \in 1..Len(issued[p]) :
        (TransmittedCommand(p, k) /\ \A j \in 1..k : issued[p][j].ok) =>
            LastNamed(Transmitted(SubSeq(issued[p], 1, k))) = issued[p][k].address

-----------------------------------------------------------------------------
(* C37 *)

\* The bus b after the commands cmds have been transmitted on it.
RECURSIVE Delivered(_, _)
Delivered(b, cmds) == IF cmds = <<>> THEN b ELSE Delivered(Deliver(b, Head(cmds)), Tail(cmds))

\* The lines the supplies sent in reply to what the last call transmitted.
OwnReplies == Delivered([last.bus EXCEPT !.rx = <<>>], last.sent).rx

\* The last call was a numeric query that returned a value.
ValueReturned == last.n > 0 /\ last.method \in DOMAIN Prefix /\ last.exc = "none"

\* C37: every value a query of the class returns is decoded from the supply's reply to the
\* query that this call transmitted, never from a line that was in the input buffer before,
\* such as the reply to an earlier query that arrived after its read had timed out.
C37_OwnReplyDecoded ==
    ValueReturned =>
        /\ Len(OwnReplies) = 1
        /\ IsFloat(remove(remove(OwnReplies[1], CRLF), Prefix[last.method]))
        /\ last.ret = float(remove(remove(OwnReplies[1], CRLF), Prefix[last.method]))

\* The same for the calls made while the input buffer is empty.
C37_WhenBufferEmpty == (ValueReturned /\ last.bus.rx = <<>>) => C37_OwnReplyDecoded

====
